---------------------------- MODULE Spec2Model ----------------------------
(***************************************************************************)
(* A model of FlexibleDataLoader (src/flexible_loader.py): source          *)
(* detection, column mapping, projection and record normalization, as a    *)
(* state machine that follows one call, load_and_map or                    *)
(* show_mapping_report, from the file to the returned table or the printed *)
(* report, alone or beside a second call on the same loader.               *)
(*                                                                         *)
(* Tables are pandas DataFrames: a sequence of column labels (labels may   *)
(* repeat after a rename), an index and rows of cells.  A cell is missing  *)
(* (NaN), a number (an exact rational n/d) or text (a sequence of          *)
(* one-character strings).  The pandas semantics are those of pandas 1.5  *)
(* to 2.x, the versions on which the chained fillna(..., inplace=True)     *)
(* calls of the source take effect (also beside repeated labels) and on    *)
(* which astype(str) turns a missing value into the text 'nan'.            *)
(***************************************************************************)
EXTENDS Integers, Sequences, FiniteSets, TLC

VARIABLES
    pc,              \* where the call is: start, loaded, detected, mapped, applied, done, failed
    file,            \* the file at filepath: readable or not, and the table it holds
    source_arg,      \* the caller's source argument
    custom_mapping,  \* the caller's custom_mapping argument
    source,          \* the local variable source
    df,              \* the raw table
    mapping,         \* the mapping handed to _apply_mapping
    df_mapped,       \* the projected table
    df_cleaned,      \* the returned table
    error,           \* the exception that left the call, None if none did
    op,              \* the method called: load_and_map or show_mapping_report
    report,          \* what show_mapping_report printed and logged
    registry,        \* the class attributes of FlexibleDataLoader, shared by all calls
    peer             \* the local state of a second call running beside this one

vars == <<pc, file, source_arg, custom_mapping, source, df, mapping, df_mapped, df_cleaned, error,
          op, report, registry, peer>>

(***************************************************************************)
(* Bounds of the model.                                                    *)
(***************************************************************************)
MaxCols == 3
MaxRows == 3

(***************************************************************************)
(* Generic helpers on sequences.                                           *)
(***************************************************************************)
Range(s) == {s[i] : i \in DOMAIN s}

InSeq(x, s) == \E i \in DOMAIN s : s[i] = x

RECURSIVE SeqOfSet(_, _)
\* the elements of the set S in the order they have in the sequence order
SeqOfSet(order, S) ==
    IF order = <<>> THEN <<>>
    ELSE IF Head(order) \in S
         THEN <<Head(order)>> \o SeqOfSet(Tail(order), S)
         ELSE SeqOfSet(Tail(order), S)

(***************************************************************************)
(* Python's None, for the optional arguments of load_and_map.              *)
(***************************************************************************)
None == "None"

(***************************************************************************)
(* The registry: class-level constants of FlexibleDataLoader.  A Python    *)
(* dict is a sequence of <<key, value>> pairs in insertion order.          *)
(***************************************************************************)
STANDARD_SCHEMA ==
    <<"movie_id", "title", "genres", "release_year", "runtime", "rating",
      "vote_count", "popularity", "overview">>

SOURCE_NAMES == <<"tmdb", "imdb", "movielens", "rotten_tomatoes", "letterboxd", "kaggle">>

SOURCE_MAPPINGS ==
    [tmdb |-> << <<"id", "movie_id">>, <<"title", "title">>, <<"genres", "genres">>,
                 <<"release_date", "release_year">>, <<"runtime", "runtime">>,
                 <<"vote_average", "rating">>, <<"vote_count", "vote_count">>,
                 <<"popularity", "popularity">>, <<"overview", "overview">> >>,
     imdb |-> << <<"tconst", "movie_id">>, <<"primary_title", "title">>,
                 <<"original_title", "title">>, <<"genres", "genres">>,
                 <<"start_year", "release_year">>, <<"runtime_minutes", "runtime">>,
                 <<"average_rating", "rating">>, <<"num_votes", "vote_count">>,
                 <<"title_id", "movie_id">> >>,
     movielens |-> << <<"movieid", "movie_id">>, <<"movie_id", "movie_id">>,
                      <<"title", "title">>, <<"genres", "genres">>,
                      <<"rating", "rating">>, <<"timestamp", "vote_count">> >>,
     rotten_tomatoes |-> << <<"id", "movie_id">>, <<"name", "title">>, <<"title", "title">>,
                            <<"genre", "genres">>, <<"genres", "genres">>,
                            <<"year", "release_year">>, <<"rating", "rating">>,
                            <<"audience_score", "rating">>, <<"imdb_rating", "rating">> >>,
     letterboxd |-> << <<"id", "movie_id">>, <<"name", "title">>, <<"year", "release_year">>,
                       <<"genre", "genres">>, <<"rating", "rating">>,
                       <<"rating_count", "vote_count">>, <<"description", "overview">> >>,
     kaggle |-> << <<"movie_id", "movie_id">>, <<"film_name", "title">>,
                   <<"movie_name", "title">>, <<"name", "title">>, <<"genre", "genres">>,
                   <<"release_year", "release_year">>, <<"year", "release_year">>,
                   <<"rating", "rating">>, <<"votes", "vote_count">>,
                   <<"runtime", "runtime">> >>]

FUZZY_PATTERNS ==
    << <<"movie_id", <<"id", "movie_id", "tconst", "imdb_id", "film_id">> >>,
       <<"title", <<"title", "name", "film_name", "movie_name", "primary_title",
                    "original_title">> >>,
       <<"genres", <<"genre", "genres", "genre_list", "category">> >>,
       <<"release_year", <<"year", "release_year", "release_date", "start_year",
                           "release_date_published">> >>,
       <<"runtime", <<"runtime", "duration", "length", "running_time">> >>,
       <<"rating", <<"rating", "score", "imdb_rating", "average_rating", "audience_score",
                     "vote_average">> >>,
       <<"vote_count", <<"votes", "vote_count", "num_votes", "number_of_votes",
                         "rating_count", "count">> >>,
       <<"popularity", <<"popularity", "popular", "score">> >>,
       <<"overview", <<"overview", "description", "synopsis", "summary", "plot">> >> >>

\* the value the class attributes have when the class is defined
Registry ==
    [STANDARD_SCHEMA |-> STANDARD_SCHEMA,
     SOURCE_MAPPINGS |-> SOURCE_MAPPINGS,
     FUZZY_PATTERNS |-> FUZZY_PATTERNS]

\* source_signatures of _detect_source, in the order of the dict literal
source_signatures ==
    << <<"imdb", {"tconst", "primary_title", "start_year"}>>,
       <<"tmdb", {"id", "vote_average", "vote_count"}>>,
       <<"movielens", {"movieid", "userid", "timestamp"}>>,
       <<"rotten_tomatoes", {"audience_score", "critics_score"}>>,
       <<"letterboxd", {"imdb_code", "imdb_id"}>>,
       <<"kaggle", {"film_name", "movie_name", "name"}>> >>

(***************************************************************************)
(* str.lower() on column names.  The names of the model that hold an       *)
(* upper-case letter are listed with their lower-cased form; every other   *)
(* name of the model is already lower-case.                                *)
(***************************************************************************)
UpperCased ==
    << <<"Title", "title">>, <<"ID", "id">> >>

Lower(c) ==
    IF \E i \in DOMAIN UpperCased : UpperCased[i][1] = c
    THEN UpperCased[CHOOSE i \in DOMAIN UpperCased : UpperCased[i][1] = c][2]
    ELSE c

(***************************************************************************)
(* Python dicts as sequences of pairs.                                     *)
(***************************************************************************)
Keys(m) == {m[i][1] : i \in DOMAIN m}

Values(m) == {m[i][2] : i \in DOMAIN m}

\* m[k] for a key k of m
Get(m, k) == m[CHOOSE i \in DOMAIN m : m[i][1] = k][2]

\* m[k] = v: a new key is appended, an old key keeps its place
DictSet(m, k, v) ==
    IF k \in Keys(m)
    THEN [i \in DOMAIN m |-> IF m[i][1] = k THEN <<k, v>> ELSE m[i]]
    ELSE Append(m, <<k, v>>)

\* {col.lower(): col for col in columns}: the keys, and the column a key stands
\* for (a later column with the same lower-cased name replaces an earlier one)
LowerKeys(columns) == {Lower(columns[i]) : i \in DOMAIN columns}

LowerGet(columns, l) ==
    columns[CHOOSE i \in DOMAIN columns :
                /\ Lower(columns[i]) = l
                /\ \A j \in DOMAIN columns : Lower(columns[j]) = l => j <= i]

(***************************************************************************)
(* _detect_source(df): the source whose signature shares most names with   *)
(* the lower-cased columns; max() over a dict keeps the first maximum.     *)
(***************************************************************************)
match_count(sig_cols, columns) == Cardinality(sig_cols \cap LowerKeys(columns))

RECURSIVE MaxLoopLast(_, _, _)
MaxLoopLast(columns, best, i) ==
    IF i > Len(source_signatures) THEN best
    ELSE IF match_count(source_signatures[i][2], columns)
              >= match_count(source_signatures[best][2], columns)
         THEN MaxLoopLast(columns, i, i + 1)
         ELSE MaxLoopLast(columns, best, i + 1)

RECURSIVE MaxLoop(_, _, _)
\* max(scores, key=scores.get): a later source replaces the best one only
\* with a strictly greater score
MaxLoop(columns, best, i) ==
    IF i > Len(source_signatures) THEN best
    ELSE IF match_count(source_signatures[i][2], columns)
              > match_count(source_signatures[best][2], columns)
         THEN MaxLoop(columns, i, i + 1)
         ELSE MaxLoop(columns, best, i + 1)

\* a variant of the detector: the test of the best score is inverted
detect_source_inverted(columns) ==
    LET detected == MaxLoop(columns, 1, 2)
    IN  IF match_count(source_signatures[detected][2], columns) = 0
        THEN source_signatures[detected][1]
        ELSE "kaggle"

detect_source(columns) ==
    LET detected == MaxLoop(columns, 1, 2)
    IN  IF match_count(source_signatures[detected][2], columns) > 0
        THEN source_signatures[detected][1]
        ELSE "kaggle"

(***************************************************************************)
(* _get_column_mapping(df, source) and _fuzzy_match_all(df).               *)
(***************************************************************************)
\* SOURCE_MAPPINGS.get(source, {})
source_map(src) ==
    IF src \in DOMAIN registry.SOURCE_MAPPINGS THEN registry.SOURCE_MAPPINGS[src] ELSE <<>>

RECURSIVE ExactLoop(_, _, _, _)
\* for orig_col, std_col in source_map.items(): ...
ExactLoop(columns, smap, i, m) ==
    IF i > Len(smap) THEN m
    ELSE IF Lower(smap[i][1]) \in LowerKeys(columns)
         THEN ExactLoop(columns, smap, i + 1,
                        DictSet(m, LowerGet(columns, Lower(smap[i][1])), smap[i][2]))
         ELSE ExactLoop(columns, smap, i + 1, m)

RECURSIVE PatternLoopCaseSensitive(_, _, _, _, _)
\* a variant of the pattern loop: the pattern is looked up among the column
\* names as they are written
PatternLoopCaseSensitive(columns, std_col, patterns, j, m) ==
    IF j > Len(patterns) THEN m
    ELSE IF InSeq(patterns[j], columns) /\ patterns[j] \notin Keys(m)
         THEN DictSet(m, patterns[j], std_col)
         ELSE PatternLoopCaseSensitive(columns, std_col, patterns, j + 1, m)

RECURSIVE PatternLoop(_, _, _, _, _)
\* for pattern in patterns: ... break at the first column that is set
PatternLoop(columns, std_col, patterns, j, m) ==
    IF j > Len(patterns) THEN m
    ELSE IF /\ Lower(patterns[j]) \in LowerKeys(columns)
            /\ LowerGet(columns, Lower(patterns[j])) \notin Keys(m)
         THEN DictSet(m, LowerGet(columns, Lower(patterns[j])), std_col)
         ELSE PatternLoop(columns, std_col, patterns, j + 1, m)

RECURSIVE FuzzyLoopEveryField(_, _, _, _)
\* a variant of the fuzzy loop: a field that is resolved already is tried too
FuzzyLoopEveryField(columns, i, m, onlyMissing) ==
    IF i > Len(registry.FUZZY_PATTERNS) THEN m
    ELSE FuzzyLoopEveryField(columns, i + 1,
                             PatternLoop(columns, registry.FUZZY_PATTERNS[i][1],
                                         registry.FUZZY_PATTERNS[i][2], 1, m),
                             onlyMissing)

RECURSIVE FuzzyLoop(_, _, _, _)
\* for std_col, patterns in FUZZY_PATTERNS.items(); onlyMissing is the guard
\* "if std_col not in mapping.values()" of _get_column_mapping
FuzzyLoop(columns, i, m, onlyMissing) ==
    IF i > Len(registry.FUZZY_PATTERNS) THEN m
    ELSE IF onlyMissing /\ registry.FUZZY_PATTERNS[i][1] \in Values(m)
         THEN FuzzyLoop(columns, i + 1, m, onlyMissing)
         ELSE FuzzyLoop(columns, i + 1,
                        PatternLoop(columns, registry.FUZZY_PATTERNS[i][1],
                                    registry.FUZZY_PATTERNS[i][2], 1, m),
                        onlyMissing)

\* a variant of the best-effort pass: the first column is taken for the title
fuzzy_match_all_guess(columns) ==
    IF columns = <<>> THEN <<>> ELSE << <<columns[1], "title">> >>

fuzzy_match_all(columns) == FuzzyLoop(columns, 1, <<>>, FALSE)

get_column_mapping(columns, src) ==
    LET exact == ExactLoop(columns, source_map(src), 1, <<>>)
        fuzzy == FuzzyLoop(columns, 1, exact, TRUE)
    IN  IF fuzzy = <<>> THEN fuzzy_match_all(columns) ELSE fuzzy


(***************************************************************************)
(* Cells.  NaN is pandas' missing value (NaN, None, <NA>); Num(n, d) is    *)
(* the number n/d in lowest terms; Str(s) is the text with characters s.   *)
(***************************************************************************)
NaN == [k |-> "nan", n |-> 0, d |-> 1, s |-> <<>>]

RECURSIVE GCD(_, _)
GCD(a, b) == IF b = 0 THEN a ELSE GCD(b, a % b)

Abs(x) == IF x < 0 THEN -x ELSE x

Num(n, d) ==
    LET g == GCD(Abs(n), d)
    IN  [k |-> "num", n |-> n \div g, d |-> d \div g, s |-> <<>>]

Str(s) == [k |-> "str", n |-> 0, d |-> 1, s |-> s]

IsNaN(c) == c.k = "nan"
IsNum(c) == c.k = "num"
IsStr(c) == c.k = "str"
IsInteger(c) == IsNum(c) /\ c.d = 1

RatLess(a, b) == a.n * b.d < b.n * a.d

(***************************************************************************)
(* Characters and decimal numerals.                                        *)
(***************************************************************************)
DigitChars == <<"0", "1", "2", "3", "4", "5", "6", "7", "8", "9">>

IsDigit(ch) == InSeq(ch, DigitChars)

DigitValue(ch) == (CHOOSE i \in DOMAIN DigitChars : DigitChars[i] = ch) - 1

RECURSIVE Digits(_)
\* the decimal numeral of the natural number x
Digits(x) ==
    IF x < 10 THEN <<DigitChars[x + 1]>>
    ELSE Digits(x \div 10) \o <<DigitChars[(x % 10) + 1]>>

RECURSIVE DigitsValue(_)
\* the natural number a sequence of digits denotes (0 for the empty one)
DigitsValue(s) ==
    IF s = <<>> THEN 0
    ELSE 10 * DigitsValue(SubSeq(s, 1, Len(s) - 1)) + DigitValue(s[Len(s)])

RECURSIVE Pow10(_)
Pow10(e) == IF e = 0 THEN 1 ELSE 10 * Pow10(e - 1)

RECURSIVE ZeroPad(_, _)
\* the format spec 0<width>d: zeros on the left up to width characters
ZeroPad(s, width) == IF Len(s) >= width THEN s ELSE ZeroPad(<<"0">> \o s, width)

(***************************************************************************)
(* pd.to_numeric(..., errors='coerce') on one cell.  Text made of digits   *)
(* with at most one decimal point and at least one digit parses to its     *)
(* value; any other text of the model's alphabet becomes missing.          *)
(***************************************************************************)
DotPos(s) == IF InSeq(".", s) THEN CHOOSE i \in DOMAIN s :
                                       s[i] = "." /\ \A j \in 1..(i - 1) : s[j] # "."
             ELSE Len(s) + 1

ParseDecimal(s) ==
    LET p == DotPos(s)
        ip == SubSeq(s, 1, p - 1)
        fp == SubSeq(s, p + 1, Len(s))
    IN  IF /\ \A i \in DOMAIN ip : IsDigit(ip[i])
           /\ \A i \in DOMAIN fp : IsDigit(fp[i])
           /\ Len(ip) + Len(fp) > 0
        THEN Num(DigitsValue(ip \o fp), Pow10(Len(fp)))
        ELSE NaN

to_numeric(c) == IF IsStr(c) THEN ParseDecimal(c.s) ELSE c

(***************************************************************************)
(* Series.median(): the middle of the sorted non-missing values, the mean  *)
(* of the two middle values for an even count, NaN when there is none.     *)
(***************************************************************************)
RECURSIVE Insert(_, _)
Insert(sorted, c) ==
    IF sorted = <<>> THEN <<c>>
    ELSE IF RatLess(c, Head(sorted)) THEN <<c>> \o sorted
         ELSE <<Head(sorted)>> \o Insert(Tail(sorted), c)

RECURSIVE Sorted(_)
Sorted(cells) == IF cells = <<>> THEN <<>> ELSE Insert(Sorted(Tail(cells)), Head(cells))

\* a variant of the median: the lower of the two middle values for an even count
median_low(cells) ==
    LET vals == Sorted(SelectSeq(cells, IsNum))
        cnt == Len(vals)
    IN  IF cnt = 0 THEN NaN ELSE vals[(cnt + 1) \div 2]

median(cells) ==
    LET vals == Sorted(SelectSeq(cells, IsNum))
        cnt == Len(vals)
    IN  IF cnt = 0 THEN NaN
        ELSE IF cnt % 2 = 1 THEN vals[(cnt + 1) \div 2]
        ELSE LET a == vals[cnt \div 2]
                 b == vals[(cnt \div 2) + 1]
             IN  Num(a.n * b.d + b.n * a.d, 2 * a.d * b.d)

\* Series.fillna(value): a missing cell takes the value
fillna(cells, value) == [i \in DOMAIN cells |-> IF IsNaN(cells[i]) THEN value ELSE cells[i]]

(***************************************************************************)
(* Series.astype(str) on one cell: text stays, a missing value becomes the *)
(* text 'nan', a number its numeral.  A whole number of a float64 column   *)
(* carries '.0'; fractions are written with up to two decimals.            *)
(***************************************************************************)
ColIsFloat(cells) ==
    /\ \A i \in DOMAIN cells : ~IsStr(cells[i])
    /\ \E i \in DOMAIN cells : IsNaN(cells[i]) \/ (IsNum(cells[i]) /\ cells[i].d # 1)

Numeral(c, isFloat) ==
    LET a == Abs(c.n)
        sign == IF c.n < 0 THEN <<"-">> ELSE <<>>
        whole == Digits(a \div c.d)
        hundredths == ((a % c.d) * 100) \div c.d
        frac == IF hundredths % 10 = 0 THEN Digits(hundredths \div 10)
                ELSE ZeroPad(Digits(hundredths), 2)
    IN  IF c.d = 1 THEN sign \o whole \o (IF isFloat THEN <<".", "0">> ELSE <<>>)
        ELSE sign \o whole \o <<".">> \o frac

astype_str(c, isFloat) ==
    IF IsStr(c) THEN c
    ELSE IF IsNaN(c) THEN Str(<<"n", "a", "n">>)
    ELSE Str(Numeral(c, isFloat))

(***************************************************************************)
(* The lambda of the genres step:                                          *)
(*   x.replace('[', '').replace(']', '').replace("'", '').strip()          *)
(*   if pd.notna(x) else 'Unknown'                                         *)
(***************************************************************************)
Unknown == Str(<<"U", "n", "k", "n", "o", "w", "n">>)

Replace(s, ch) == SelectSeq(s, LAMBDA x : x # ch)

RECURSIVE LStrip(_)
LStrip(s) == IF s # <<>> /\ Head(s) = " " THEN LStrip(Tail(s)) ELSE s

RECURSIVE RStrip(_)
RStrip(s) == IF s # <<>> /\ s[Len(s)] = " " THEN RStrip(SubSeq(s, 1, Len(s) - 1)) ELSE s

Strip(s) == RStrip(LStrip(s))

genres_lambda(x) ==
    IF ~IsNaN(x)
    THEN Str(Strip(Replace(Replace(Replace(x.s, "["), "]"), "'")))
    ELSE Unknown


(***************************************************************************)
(* Tables (DataFrames): column labels, index labels and rows of cells.     *)
(* origin records, for every column, the raw column its cells come from    *)
(* (the column's own first label), or Synthesized for a column the         *)
(* normalizer made up.                                                     *)
(***************************************************************************)
Table(columns, index, rows) ==
    [columns |-> columns, origin |-> columns, index |-> index, rows |-> rows]

Synthesized == "<synthesized>"

NRows(t) == Len(t.index)

HasCol(t, label) == InSeq(label, t.columns)

\* the positions of the columns with this label, in column order
Positions(t, label) == SelectSeq([j \in DOMAIN t.columns |-> j], LAMBDA j : t.columns[j] = label)

Col(t, j) == [i \in DOMAIN t.rows |-> t.rows[i][j]]

\* df[label] = cells for a label the table has once: the column is replaced
SetCol(t, j, cells) ==
    [t EXCEPT !.rows = [i \in DOMAIN t.rows |-> [t.rows[i] EXCEPT ![j] = cells[i]]]]

\* df[label] = cells for a label the table does not have: a new last column
AddCol(t, label, cells) ==
    [t EXCEPT !.columns = Append(t.columns, label),
              !.origin = Append(t.origin, Synthesized),
              !.rows = [i \in DOMAIN t.rows |-> Append(t.rows[i], cells[i])]]

\* the table restricted to the columns at these positions, in this order
SelectCols(t, positions) ==
    [t EXCEPT !.columns = [p \in DOMAIN positions |-> t.columns[positions[p]]],
              !.origin = [p \in DOMAIN positions |-> t.origin[positions[p]]],
              !.rows = [i \in DOMAIN t.rows |->
                           [p \in DOMAIN positions |-> t.rows[i][positions[p]]]]]

\* the table restricted to the rows at these positions, in this order
SelectRows(t, kept) ==
    [t EXCEPT !.index = [p \in DOMAIN kept |-> t.index[kept[p]]],
              !.rows = [p \in DOMAIN kept |-> t.rows[kept[p]]]]

(***************************************************************************)
(* _apply_mapping(df, mapping).                                            *)
(***************************************************************************)
\* df.rename(columns=mapping): a label that is a key takes the key's value
rename(t, m) ==
    [t EXCEPT !.columns = [j \in DOMAIN t.columns |->
                              IF t.columns[j] \in Keys(m) THEN Get(m, t.columns[j])
                              ELSE t.columns[j]]]

RECURSIVE StdPositions(_, _)
\* df_renamed[existing_std_cols]: for each schema field among the labels, in
\* schema order, every column with that label
StdPositions(t, i) ==
    IF i > Len(registry.STANDARD_SCHEMA) THEN <<>>
    ELSE Positions(t, registry.STANDARD_SCHEMA[i]) \o StdPositions(t, i + 1)

\* a variant of _apply_mapping: the renamed table, every column kept
apply_mapping_rename_only(t, m) == rename(t, m)

apply_mapping(t, m) ==
    LET df_renamed == rename(t, m)
    IN  SelectCols(df_renamed, StdPositions(df_renamed, 1))

(***************************************************************************)
(* DataFrame.drop_duplicates(subset=..., keep='first'): rows are compared  *)
(* on every column whose label is in the subset; missing values compare    *)
(* equal to each other.                                                    *)
(***************************************************************************)
KeyPositions(t, subset) == {j \in DOMAIN t.columns : t.columns[j] \in subset}

RowKey(t, subset, i) == [j \in KeyPositions(t, subset) |-> t.rows[i][j]]

RECURSIVE KeepLast(_, _, _, _)
KeepLast(t, subset, i, kept) ==
    IF i > NRows(t) THEN kept
    ELSE IF \E j \in (i + 1)..NRows(t) : RowKey(t, subset, j) = RowKey(t, subset, i)
         THEN KeepLast(t, subset, i + 1, kept)
         ELSE KeepLast(t, subset, i + 1, Append(kept, i))

RECURSIVE KeepFirst(_, _, _, _)
\* the rows whose key was not seen in an earlier row
KeepFirst(t, subset, i, kept) ==
    IF i > NRows(t) THEN kept
    ELSE IF \E p \in DOMAIN kept : RowKey(t, subset, kept[p]) = RowKey(t, subset, i)
         THEN KeepFirst(t, subset, i + 1, kept)
         ELSE KeepFirst(t, subset, i + 1, Append(kept, i))

drop_duplicates(t, subset) == SelectRows(t, KeepFirst(t, subset, 1, <<>>))

(***************************************************************************)
(* _validate_and_clean(df), step by step.  A step either gives the next    *)
(* table or raises; Ok and Raise are the two outcomes.                     *)
(***************************************************************************)
Ok(t) == [ok |-> TRUE, error |-> None, t |-> t]

Raise(exc, t) == [ok |-> FALSE, error |-> exc, t |-> t]

\* if 'title' in df.columns and 'release_year' in df.columns: drop_duplicates
step_duplicates(t) ==
    IF HasCol(t, "title") /\ HasCol(t, "release_year")
    THEN Ok(drop_duplicates(t, {"title", "release_year"}))
    ELSE Ok(t)

\* a variant of the coercion below: one cell that is no numeral makes the
\* whole column missing
numeric_column_all_or_nothing(t, label) ==
    LET j == Positions(t, label)[1]
    IN  IF \E i \in DOMAIN t.rows : IsStr(t.rows[i][j]) /\ IsNaN(to_numeric(t.rows[i][j]))
        THEN [i \in DOMAIN t.rows |-> NaN]
        ELSE [i \in DOMAIN t.rows |-> to_numeric(t.rows[i][j])]

\* df[label] = pd.to_numeric(df[label], errors='coerce'), which raises
\* TypeError when df[label] is a DataFrame (the label is on several columns)
numeric_column(t, label) ==
    LET j == Positions(t, label)[1]
    IN  [i \in DOMAIN t.rows |-> to_numeric(t.rows[i][j])]

\* rating and runtime: to_numeric, then fillna(median)
step_median(t, label) ==
    IF ~HasCol(t, label) THEN Ok(t)
    ELSE IF Len(Positions(t, label)) > 1 THEN Raise("TypeError", t)
    ELSE LET cells == numeric_column(t, label)
         IN  Ok(SetCol(t, Positions(t, label)[1], fillna(cells, median(cells))))

\* a variant of the step below: the fill value is the column's median
step_zero_by_median(t, label) == step_median(t, label)

\* vote_count and popularity: to_numeric, then fillna(0)
step_zero(t, label) ==
    IF ~HasCol(t, label) THEN Ok(t)
    ELSE IF Len(Positions(t, label)) > 1 THEN Raise("TypeError", t)
    ELSE Ok(SetCol(t, Positions(t, label)[1], fillna(numeric_column(t, label), Num(0, 1))))

\* a variant of the step below: a missing year takes the column's median
step_release_year_imputed(t) ==
    IF ~HasCol(t, "release_year") THEN Ok(t)
    ELSE IF Len(Positions(t, "release_year")) > 1 THEN Raise("TypeError", t)
    ELSE LET cells == numeric_column(t, "release_year")
         IN  IF \E i \in DOMAIN cells : IsNum(cells[i]) /\ cells[i].d # 1
             THEN Raise("TypeError", t)
             ELSE Ok(SetCol(t, Positions(t, "release_year")[1], fillna(cells, median_low(cells))))

\* release_year: to_numeric, then astype('Int64'), which raises TypeError
\* on a number that is not whole and keeps a missing value missing
step_release_year(t) ==
    IF ~HasCol(t, "release_year") THEN Ok(t)
    ELSE IF Len(Positions(t, "release_year")) > 1 THEN Raise("TypeError", t)
    ELSE LET cells == numeric_column(t, "release_year")
         IN  IF \E i \in DOMAIN cells : IsNum(cells[i]) /\ cells[i].d # 1
             THEN Raise("TypeError", t)
             ELSE Ok(SetCol(t, Positions(t, "release_year")[1], cells))

\* f"MOV{i+1:05d}" for the row at position i + 1
movie_id_token(position) == Str(<<"M", "O", "V">> \o ZeroPad(Digits(position), 5))

\* variants of the movie_id step: tokens numbered by index label, and no
\* tokens for a table without columns
step_movie_id_by_label(t) ==
    IF HasCol(t, "movie_id") THEN Ok(t)
    ELSE Ok(AddCol(t, "movie_id", [i \in 1..NRows(t) |-> movie_id_token(t.index[i] + 1)]))

step_movie_id_unless_empty(t) ==
    IF HasCol(t, "movie_id") \/ t.columns = <<>> THEN Ok(t)
    ELSE Ok(AddCol(t, "movie_id", [i \in 1..NRows(t) |-> movie_id_token(i)]))

\* a variant of the movie_id step: the tokens are written over given ids too
step_movie_id_renumbered(t) ==
    IF HasCol(t, "movie_id")
    THEN Ok(SetCol(t, Positions(t, "movie_id")[1], [i \in 1..NRows(t) |-> movie_id_token(i)]))
    ELSE Ok(AddCol(t, "movie_id", [i \in 1..NRows(t) |-> movie_id_token(i)]))

\* a variant of the movie_id step: a missing given id takes a token
step_movie_id_fill_missing(t) ==
    IF HasCol(t, "movie_id")
    THEN Ok(SetCol(t, Positions(t, "movie_id")[1],
                   [i \in 1..NRows(t) |->
                       IF IsNaN(t.rows[i][Positions(t, "movie_id")[1]])
                       THEN movie_id_token(i)
                       ELSE t.rows[i][Positions(t, "movie_id")[1]]]))
    ELSE Ok(AddCol(t, "movie_id", [i \in 1..NRows(t) |-> movie_id_token(i)]))

\* if 'movie_id' not in df.columns: one token per row, by position
step_movie_id(t) ==
    IF HasCol(t, "movie_id") THEN Ok(t)
    ELSE Ok(AddCol(t, "movie_id", [i \in 1..NRows(t) |-> movie_id_token(i)]))

\* if 'genres' in df.columns: astype(str), then the lambda on every cell; on
\* several genres columns the lambda gets a whole column and pd.notna(x) has
\* no truth value (ValueError)
step_genres(t) ==
    IF ~HasCol(t, "genres") THEN Ok(t)
    ELSE IF Len(Positions(t, "genres")) > 1 THEN Raise("ValueError", t)
    ELSE LET j == Positions(t, "genres")[1]
             cells == Col(t, j)
         IN  Ok(SetCol(t, j, [i \in DOMAIN cells |->
                                 genres_lambda(astype_str(cells[i], ColIsFloat(cells)))]))

\* the statements of _validate_and_clean in order; a statement runs on the
\* table the one before it left, and none runs after one has raised
after_rating(r) == IF r.ok THEN step_median(r.t, "rating") ELSE r
after_vote_count(r) == IF r.ok THEN step_zero(r.t, "vote_count") ELSE r
after_runtime(r) == IF r.ok THEN step_median(r.t, "runtime") ELSE r
after_release_year(r) == IF r.ok THEN step_release_year(r.t) ELSE r
after_popularity(r) == IF r.ok THEN step_zero(r.t, "popularity") ELSE r
after_movie_id(r) == IF r.ok THEN step_movie_id(r.t) ELSE r
after_genres(r) == IF r.ok THEN step_genres(r.t) ELSE r

validate_and_clean(t) ==
    after_genres(after_movie_id(after_popularity(after_release_year(
        after_runtime(after_vote_count(after_rating(step_duplicates(t))))))))

(***************************************************************************)
(* The inputs of the model: files, source arguments and custom mappings.   *)
(* A file's rows are drawn from sample records; a raw column takes, in     *)
(* each row, the record's value of the column's kind.                      *)
(***************************************************************************)
T(s) == Str(s)

RECORDS ==
    << [id |-> Num(1, 1), title |-> T(<<"A">>),
        genres |-> T(<<"[", "'", "A", "'", ",", " ", "'", "B", "'", "]">>),
        year |-> Num(1999, 1), runtime |-> Num(90, 1), rating |-> Num(7, 1),
        votes |-> Num(10, 1), popularity |-> Num(5, 1), overview |-> T(<<"o">>),
        other |-> T(<<"z">>)],
       [id |-> Num(2, 1), title |-> T(<<"A">>), genres |-> T(<<"A">>),
        year |-> Num(1999, 1), runtime |-> Num(100, 1), rating |-> Num(8, 1),
        votes |-> NaN, popularity |-> NaN, overview |-> NaN, other |-> NaN],
       [id |-> NaN, title |-> T(<<"A">>), genres |-> T(<<"[", "]">>),
        year |-> T(<<"1", "9", "9", "9">>), runtime |-> Num(181, 2),
        rating |-> T(<<"7", ".", "5">>), votes |-> T(<<"1", "2">>),
        popularity |-> T(<<"1", ".", "5">>), overview |-> T(<<"o">>), other |-> Num(3, 1)],
       [id |-> Num(1, 1), title |-> NaN, genres |-> NaN, year |-> NaN, runtime |-> NaN,
        rating |-> NaN, votes |-> NaN, popularity |-> NaN, overview |-> NaN, other |-> NaN],
       [id |-> T(<<"t", "t", "1">>), title |-> T(<<"B">>), genres |-> T(<<" ", "A", " ">>),
        year |-> T(<<"b", "a", "d">>), runtime |-> T(<<"b", "a", "d">>),
        rating |-> T(<<"b", "a", "d">>), votes |-> T(<<"b", "a", "d">>),
        popularity |-> T(<<"b", "a", "d">>), overview |-> T(<<>>), other |-> T(<<"z">>)],
       [id |-> Num(6, 1), title |-> T(<<"B">>), genres |-> T(<<"'", "'">>),
        year |-> Num(3999, 2), runtime |-> Num(120, 1), rating |-> Num(9, 1),
        votes |-> Num(3, 1), popularity |-> Num(5, 2), overview |-> T(<<"p">>),
        other |-> Num(1, 2)],
       [id |-> T(<<"t", "t", "2">>), title |-> T(<<"C">>),
        genres |-> T(<<"[", "\"", "A", "\"", ",", " ", "\"", "B", "\"", "]">>),
        year |-> Num(2001, 1), runtime |-> NaN, rating |-> Num(6, 1),
        votes |-> Num(0, 1), popularity |-> NaN, overview |-> T(<<"q">>),
        other |-> NaN] >>

\* the kind of value each raw column name of the model holds
KINDS ==
    << <<"id", {"id", "ID", "tconst", "imdb_id", "movie_id"}>>,
       <<"title", {"title", "Title", "name", "film_name", "primary_title", "original_title"}>>,
       <<"genres", {"genres"}>>,
       <<"year", {"release_year", "start_year"}>>,
       <<"runtime", {"runtime"}>>,
       <<"rating", {"rating", "score", "audience_score", "vote_average", "average_rating"}>>,
       <<"votes", {"vote_count", "num_votes"}>>,
       <<"popularity", {"popularity"}>>,
       <<"overview", {"overview"}>> >>

KindOf(name) ==
    IF \E i \in DOMAIN KINDS : name \in KINDS[i][2]
    THEN KINDS[CHOOSE i \in DOMAIN KINDS : name \in KINDS[i][2]][1]
    ELSE "other"

\* the table read from a file with these columns and these records as rows
\* (read_csv and read_json give a RangeIndex 0, 1, ...)
MakeTable(columns, recs) ==
    Table(columns, [i \in DOMAIN recs |-> i - 1],
          [i \in DOMAIN recs |-> [j \in DOMAIN columns |-> RECORDS[recs[i]][KindOf(columns[j])]]])

\* column names for the files that vary the columns, in file order
NAME_UNIVERSE ==
    <<"tconst", "primary_title", "original_title", "id", "vote_average", "vote_count",
      "audience_score", "rating", "imdb_id", "film_name", "name", "title", "Title",
      "release_year", "genres", "score", "notes">>

NameFiles ==
    {MakeTable(SeqOfSet(NAME_UNIVERSE, S), <<1, 2>>) :
        S \in {X \in SUBSET Range(NAME_UNIVERSE) : Cardinality(X) <= MaxCols}}

\* column lists for the files that vary the rows
DATA_COLUMNS ==
    { <<"title", "release_year", "rating">>,
      <<"title", "release_year", "runtime", "genres">>,
      <<"title", "genres">>,
      <<"release_year", "vote_count", "popularity">>,
      <<"movie_id", "title", "release_year", "overview">>,
      <<"notes">>,
      <<"tconst", "primary_title", "start_year", "average_rating", "num_votes">> }

RowSeqs == UNION {[1..n -> DOMAIN RECORDS] : n \in 0..MaxRows}

DataFiles == {MakeTable(c, r) : c \in DATA_COLUMNS, r \in RowSeqs}

SOURCE_ARGS == {None, "tmdb", "imdb", "movielens", "rotten_tomatoes", "letterboxd", "kaggle",
                "netflix"}

NoMapping == [given |-> FALSE, dict |-> <<>>]

Given(dict) == [given |-> TRUE, dict |-> dict]

CUSTOM_MAPPINGS ==
    { Given(<<>>),
      Given(<< <<"notes", "rating">> >>),
      Given(<< <<"Title", "title">>, <<"notes", "genres">> >>),
      Given(<< <<"notes", "label">>, <<"title", "name">> >>) }

NoTable == Table(<<>>, <<>>, <<>>)

\* a file the reader reads, and one on which it raises exc
Readable(t) == [ok |-> TRUE, table |-> t, exc |-> None]

Unreadable(exc) == [ok |-> FALSE, table |-> NoTable, exc |-> exc]

\* exceptions of pd.read_csv and pd.read_json
LOAD_ERRORS == {"FileNotFoundError", "ParserError"}

\* a variant of the re-raise below: the exception is wrapped in another one
reraise_wrapped(exc) == "RuntimeError"

\* the bare `raise` of the except clause: the exception that was caught
reraise(exc) == exc

(***************************************************************************)
(* The state machine: one call of load_and_map, step by step.              *)
(***************************************************************************)
\* nothing printed and nothing logged
NoReport == [emitted |-> FALSE, source |-> None, pairs |-> <<>>, unmapped |-> {}, logged |-> None]

\* no second call
NoPeer == [pc |-> "idle"]

\* a variant of the frame below: the loader learns the column names of the
\* mapping in use as new patterns of their fields
RegistryLearnsMapping ==
    registry' = [registry EXCEPT !.FUZZY_PATTERNS =
                    [i \in DOMAIN @ |->
                        <<@[i][1],
                          @[i][2] \o [k \in DOMAIN SelectSeq(mapping, LAMBDA pr : pr[2] = @[i][1]) |->
                                         Lower(SelectSeq(mapping, LAMBDA pr : pr[2] = @[i][1])[k][1])]>>]]

\* no statement of the class assigns STANDARD_SCHEMA, SOURCE_MAPPINGS or
\* FUZZY_PATTERNS, or changes the objects they hold
RegistryUntouched == UNCHANGED registry

Init ==
    /\ pc = "start"
    /\ \/ /\ file \in {Readable(t) : t \in NameFiles}
          /\ \/ source_arg \in SOURCE_ARGS /\ custom_mapping = NoMapping
             \/ source_arg \in {None, "imdb"} /\ custom_mapping \in CUSTOM_MAPPINGS
       \/ /\ file \in {Readable(t) : t \in DataFiles}
          /\ source_arg = None
          /\ custom_mapping = NoMapping
       \/ /\ file \in {Unreadable(exc) : exc \in LOAD_ERRORS}
          /\ source_arg \in SOURCE_ARGS
          /\ custom_mapping \in {NoMapping} \cup CUSTOM_MAPPINGS
    /\ source = source_arg
    /\ df = NoTable
    /\ mapping = <<>>
    /\ df_mapped = NoTable
    /\ df_cleaned = NoTable
    /\ error = None
    /\ op = "load_and_map"
    /\ report = NoReport
    /\ registry = Registry
    /\ peer = NoPeer

\* a variant of df.columns below: the columns that hold a value in some row
columns_with_data(t) ==
    SelectSeq(t.columns,
              LAMBDA c : \E i \in DOMAIN t.rows : \E j \in DOMAIN t.columns :
                             t.columns[j] = c /\ ~IsNaN(t.rows[i][j]))

\* df.columns: all that _detect_source and _get_column_mapping read of df
columns_of(t) == t.columns

\* try: df = pd.read_json(filepath) / pd.read_csv(filepath)
LoadFile ==
    /\ op = "load_and_map"
    /\ pc = "start"
    /\ file.ok
    /\ df' = file.table
    /\ pc' = "loaded"
    /\ UNCHANGED <<file, source_arg, custom_mapping, source, mapping, df_mapped, df_cleaned, error>>
    /\ UNCHANGED <<op, report, peer>>
    /\ RegistryUntouched

\* except Exception as e: logger.error(...); raise
LoadFails ==
    /\ op = "load_and_map"
    /\ pc = "start"
    /\ ~file.ok
    /\ error' = reraise(file.exc)
    /\ pc' = "failed"
    /\ UNCHANGED <<file, source_arg, custom_mapping, source, df, mapping, df_mapped, df_cleaned>>
    /\ UNCHANGED <<op, report, peer>>
    /\ RegistryUntouched

\* if source is None: source = self._detect_source(df)
DetectSource ==
    /\ pc = "loaded"
    /\ source' = IF source = None THEN detect_source(columns_of(df)) ELSE source
    /\ pc' = "detected"
    /\ UNCHANGED <<file, source_arg, custom_mapping, df, mapping, df_mapped, df_cleaned, error>>
    /\ UNCHANGED <<op, report, peer>>
    /\ RegistryUntouched

\* if custom_mapping: mapping = custom_mapping (None and {} are falsy)
\* else: mapping = self._get_column_mapping(df, source)
Truthy(cm) == cm.given /\ cm.dict # <<>>

choose_mapping_inferred_first(cm, columns, src) ==
    IF get_column_mapping(columns, src) # <<>> THEN get_column_mapping(columns, src)
    ELSE cm.dict

choose_mapping(cm, columns, src) ==
    IF Truthy(cm) THEN cm.dict ELSE get_column_mapping(columns, src)

GetMapping ==
    /\ pc = "detected"
    /\ mapping' = choose_mapping(custom_mapping, columns_of(df), source)
    /\ pc' = "mapped"
    /\ UNCHANGED <<file, source_arg, custom_mapping, source, df, df_mapped, df_cleaned, error>>
    /\ UNCHANGED <<op, report, peer>>
    /\ RegistryUntouched

\* a variant of the argument of _apply_mapping after the call: renamed in
\* place, as df.rename(columns=mapping, inplace=True) leaves it
raw_after_apply_in_place(t, m) == rename(t, m)

\* the argument of _apply_mapping after the call: df.rename(columns=mapping)
\* and df_renamed[existing_std_cols].copy() build new frames, df is only read
raw_after_apply(t, m) == t

\* the argument of _validate_and_clean after the call: df = df.copy() rebinds
\* the local name, every later assignment goes to the copy
input_after_clean(t) == t

\* the frame of show_mapping_report after the print statements: df.columns,
\* len(df) and df[orig_col].dropna() only read it
raw_after_report(t) == t

\* df_mapped = self._apply_mapping(df, mapping)
ApplyMapping ==
    /\ pc = "mapped"
    /\ df_mapped' = apply_mapping(df, mapping)
    /\ df' = raw_after_apply(df, mapping)
    /\ pc' = "applied"
    /\ UNCHANGED <<file, source_arg, custom_mapping, source, mapping, df_cleaned, error>>
    /\ UNCHANGED <<op, report, peer>>
    /\ RegistryUntouched

\* df_cleaned = self._validate_and_clean(df_mapped); return df_cleaned
ValidateAndClean ==
    /\ pc = "applied"
    /\ LET r == validate_and_clean(df_mapped)
       IN  IF r.ok
           THEN /\ df_cleaned' = r.t
                /\ pc' = "done"
                /\ error' = error
           ELSE /\ df_cleaned' = df_cleaned
                /\ pc' = "failed"
                /\ error' = r.error
    /\ df_mapped' = input_after_clean(df_mapped)
    /\ UNCHANGED <<file, source_arg, custom_mapping, source, df, mapping>>
    /\ UNCHANGED <<op, report, peer>>
    /\ RegistryUntouched

(***************************************************************************)
(* show_mapping_report(filepath, source), step by step.                    *)
(***************************************************************************)
\* df[orig_col].dropna().iloc[0] if there is one, else "N/A"; str(sample)[:40]
sample(t, col) ==
    LET cells == Col(t, Positions(t, col)[1])
        present == SelectSeq(cells, LAMBDA c : ~IsNaN(c))
        text == IF present = <<>> THEN <<"N", "/", "A">>
                ELSE astype_str(present[1], ColIsFloat(cells)).s
    IN  Str(SubSeq(text, 1, IF Len(text) < 40 THEN Len(text) ELSE 40))

\* the lines under COLUMN MAPPINGS: original column, canonical field, sample
report_pairs(t, m) == [i \in DOMAIN m |-> <<m[i][1], m[i][2], sample(t, m[i][1])>>]

\* unmapped = set(df.columns) - set(mapping.keys())
report_unmapped(t, m) == Range(t.columns) \ Keys(m)

\* a variant of the mapping of the report: the best-effort pass alone
report_mapping_fuzzy_only(columns, src) == fuzzy_match_all(columns)

\* mapping = self._get_column_mapping(df, source)
report_mapping(columns, src) == get_column_mapping(columns, src)

\* a variant of the except clause below: the exception is raised again
swallow_reraise(exc) == exc

\* except Exception as e: logger.error(...); return -- no exception leaves
swallow(exc) == None

\* try: df = pd.read_json(filepath) / pd.read_csv(filepath)
ReportLoad ==
    /\ op = "show_mapping_report"
    /\ pc = "start"
    /\ file.ok
    /\ df' = file.table
    /\ pc' = "r_loaded"
    /\ UNCHANGED <<file, source_arg, custom_mapping, source, mapping, df_mapped, df_cleaned, error>>
    /\ UNCHANGED <<op, report, peer>>
    /\ RegistryUntouched

\* except Exception as e: logger.error(f"Error loading file: {e}"); return
ReportLoadFails ==
    /\ op = "show_mapping_report"
    /\ pc = "start"
    /\ ~file.ok
    /\ report' = [report EXCEPT !.logged = file.exc]
    /\ error' = swallow(file.exc)
    /\ pc' = IF swallow(file.exc) = None THEN "returned" ELSE "failed"
    /\ UNCHANGED <<file, source_arg, custom_mapping, source, df, mapping, df_mapped, df_cleaned>>
    /\ UNCHANGED <<op, peer>>
    /\ RegistryUntouched

\* if source is None: source = self._detect_source(df)
ReportDetect ==
    /\ pc = "r_loaded"
    /\ source' = IF source = None THEN detect_source(columns_of(df)) ELSE source
    /\ pc' = "r_detected"
    /\ UNCHANGED <<file, source_arg, custom_mapping, df, mapping, df_mapped, df_cleaned, error>>
    /\ UNCHANGED <<op, report, peer>>
    /\ RegistryUntouched

\* mapping = self._get_column_mapping(df, source)
ReportMapping ==
    /\ pc = "r_detected"
    /\ mapping' = report_mapping(columns_of(df), source)
    /\ pc' = "r_mapped"
    /\ UNCHANGED <<file, source_arg, custom_mapping, source, df, df_mapped, df_cleaned, error>>
    /\ UNCHANGED <<op, report, peer>>
    /\ RegistryUntouched

\* the print statements: the source, the pairs with a sample each, and the
\* unmapped columns
ReportPrint ==
    /\ pc = "r_mapped"
    /\ report' = [report EXCEPT !.emitted = TRUE,
                                !.source = source,
                                !.pairs = report_pairs(df, mapping),
                                !.unmapped = report_unmapped(df, mapping)]
    /\ df' = raw_after_report(df)
    /\ pc' = "returned"
    /\ UNCHANGED <<file, source_arg, custom_mapping, source, mapping, df_mapped, df_cleaned,
                   error>>
    /\ UNCHANGED <<op, peer>>
    /\ RegistryUntouched

\* one call of show_mapping_report on a file of the model
ReportInit ==
    /\ pc = "start"
    /\ op = "show_mapping_report"
    /\ \/ /\ file \in {Readable(t) : t \in NameFiles}
          /\ source_arg \in SOURCE_ARGS
       \/ /\ file \in {Readable(t) : t \in DataFiles}
          /\ source_arg = None
       \/ /\ file \in {Unreadable(exc) : exc \in LOAD_ERRORS}
          /\ source_arg \in SOURCE_ARGS
    /\ custom_mapping = NoMapping
    /\ source = source_arg
    /\ df = NoTable
    /\ mapping = <<>>
    /\ df_mapped = NoTable
    /\ df_cleaned = NoTable
    /\ error = None
    /\ report = NoReport
    /\ registry = Registry
    /\ peer = NoPeer

ReportNext ==
    \/ ReportLoad
    \/ ReportLoadFails
    \/ ReportDetect
    \/ ReportMapping
    \/ ReportPrint

ReportSpec == ReportInit /\ [][ReportNext]_vars

(***************************************************************************)
(* Two calls on one loader, each with its own file, interleaved step by    *)
(* step.  The first call runs on the variables above; the second is the    *)
(* record peer, which holds the same locals and takes the same steps.      *)
(***************************************************************************)
\* the locals of a call at its first statement
start_call(o, f, src, cm) ==
    [op |-> o, pc |-> "start", file |-> f, source_arg |-> src, custom_mapping |-> cm,
     source |-> src, df |-> NoTable, mapping |-> <<>>, df_mapped |-> NoTable,
     df_cleaned |-> NoTable, error |-> None, report |-> NoReport]

\* the call left: a table returned, an exception raised, or the report's return
Finished(c) == c.pc \in {"done", "failed", "returned"}

\* the next statement of load_and_map on the locals c
load_step(c) ==
    CASE c.pc = "start" /\ c.file.ok ->
             [c EXCEPT !.df = c.file.table, !.pc = "loaded"]
      [] c.pc = "start" /\ ~c.file.ok ->
             [c EXCEPT !.error = reraise(c.file.exc), !.pc = "failed"]
      [] c.pc = "loaded" ->
             [c EXCEPT !.source = IF c.source = None THEN detect_source(columns_of(c.df))
                                  ELSE c.source,
                       !.pc = "detected"]
      [] c.pc = "detected" ->
             [c EXCEPT !.mapping = choose_mapping(c.custom_mapping, columns_of(c.df), c.source),
                       !.pc = "mapped"]
      [] c.pc = "mapped" ->
             [c EXCEPT !.df_mapped = apply_mapping(c.df, c.mapping),
                       !.df = raw_after_apply(c.df, c.mapping),
                       !.pc = "applied"]
      [] c.pc = "applied" ->
             LET r == validate_and_clean(c.df_mapped)
             IN  IF r.ok
                 THEN [c EXCEPT !.df_cleaned = r.t,
                                !.df_mapped = input_after_clean(c.df_mapped),
                                !.pc = "done"]
                 ELSE [c EXCEPT !.error = r.error,
                                !.df_mapped = input_after_clean(c.df_mapped),
                                !.pc = "failed"]
      [] OTHER -> c

\* the next statement of show_mapping_report on the locals c
report_step(c) ==
    CASE c.pc = "start" /\ c.file.ok ->
             [c EXCEPT !.df = c.file.table, !.pc = "r_loaded"]
      [] c.pc = "start" /\ ~c.file.ok ->
             [c EXCEPT !.report = [c.report EXCEPT !.logged = c.file.exc],
                       !.error = swallow(c.file.exc),
                       !.pc = IF swallow(c.file.exc) = None THEN "returned" ELSE "failed"]
      [] c.pc = "r_loaded" ->
             [c EXCEPT !.source = IF c.source = None THEN detect_source(columns_of(c.df))
                                  ELSE c.source,
                       !.pc = "r_detected"]
      [] c.pc = "r_detected" ->
             [c EXCEPT !.mapping = report_mapping(columns_of(c.df), c.source),
                       !.pc = "r_mapped"]
      [] c.pc = "r_mapped" ->
             [c EXCEPT !.report = [c.report EXCEPT !.emitted = TRUE,
                                                   !.source = c.source,
                                                   !.pairs = report_pairs(c.df, c.mapping),
                                                   !.unmapped = report_unmapped(c.df, c.mapping)],
                       !.df = raw_after_report(c.df),
                       !.pc = "returned"]
      [] OTHER -> c

call_step(c) == IF c.op = "load_and_map" THEN load_step(c) ELSE report_step(c)

RECURSIVE run_alone(_)
\* the call run from c to its end with no other call beside it
run_alone(c) == IF Finished(c) THEN c ELSE run_alone(call_step(c))

\* the locals of the first call, as a record
Self ==
    [op |-> op, pc |-> pc, file |-> file, source_arg |-> source_arg,
     custom_mapping |-> custom_mapping, source |-> source, df |-> df, mapping |-> mapping,
     df_mapped |-> df_mapped, df_cleaned |-> df_cleaned, error |-> error, report |-> report]

\* the second call takes its next statement
PeerStep ==
    /\ peer.pc # "idle"
    /\ ~Finished(peer)
    /\ peer' = call_step(peer)
    /\ UNCHANGED <<pc, file, source_arg, custom_mapping, source, df, mapping, df_mapped,
                   df_cleaned, error, op, report>>
    /\ RegistryUntouched

\* the files of the two calls: two tables with the same columns and different
\* rows (one with no value at all), a table with no row, an imdb export, a
\* table with an unknown column, and a file the reader rejects
CONC_FILES ==
    { Readable(MakeTable(<<"title", "release_year", "rating">>, <<1, 3>>)),
      Readable(MakeTable(<<"title", "release_year", "rating">>, <<4>>)),
      Readable(MakeTable(<<"title", "release_year", "rating">>, <<>>)),
      Readable(MakeTable(<<"tconst", "primary_title", "start_year">>, <<1, 2>>)),
      Readable(MakeTable(<<"notes", "title">>, <<5, 1>>)),
      Unreadable("ParserError") }

\* the calls of the model: load_and_map with or without an explicit mapping,
\* show_mapping_report, each with or without a source name
CONC_CALLS ==
    {start_call("load_and_map", f, src, cm) :
        f \in CONC_FILES, src \in {None, "imdb"},
        cm \in {NoMapping, Given(<< <<"notes", "rating">> >>)}}
    \cup {start_call("show_mapping_report", f, src, NoMapping) :
              f \in CONC_FILES, src \in {None, "imdb"}}

ConcInit ==
    /\ peer \in CONC_CALLS
    /\ \E c \in CONC_CALLS :
          /\ pc = c.pc /\ op = c.op /\ file = c.file /\ source_arg = c.source_arg
          /\ custom_mapping = c.custom_mapping /\ source = c.source /\ df = c.df
          /\ mapping = c.mapping /\ df_mapped = c.df_mapped /\ df_cleaned = c.df_cleaned
          /\ error = c.error /\ report = c.report
    /\ registry = Registry

ConcNext ==
    \/ LoadFile
    \/ LoadFails
    \/ DetectSource
    \/ GetMapping
    \/ ApplyMapping
    \/ ValidateAndClean
    \/ ReportLoad
    \/ ReportLoadFails
    \/ ReportDetect
    \/ ReportMapping
    \/ ReportPrint
    \/ PeerStep

ConcSpec == ConcInit /\ [][ConcNext]_vars

(***************************************************************************)
(* One call of load_and_map on a file of the model.                        *)
(***************************************************************************)
Next ==
    \/ LoadFile
    \/ LoadFails
    \/ DetectSource
    \/ GetMapping
    \/ ApplyMapping
    \/ ValidateAndClean

Spec == Init /\ [][Next]_vars


(***************************************************************************)
(* Properties.                                                             *)
(***************************************************************************)
\* every column list of the model is seen in this state: a file with the
\* first two sample records as rows, loaded by a call without arguments
FileLoaded ==
    /\ pc = "loaded" /\ source_arg = None /\ custom_mapping = NoMapping
    /\ df = MakeTable(df.columns, <<1, 2>>)

\* the steps after the choice of the mapping have a mapping to look at
MappingChosen == pc \in {"mapped", "applied", "done"} \/ (pc = "failed" /\ file.ok)

\* the position in table t of the row with this index label
RowAt(t, label) == CHOOSE p \in DOMAIN t.index : t.index[p] = label

IsSubsequenceOf(s, full) ==
    /\ \A p \in DOMAIN s : InSeq(s[p], full)
    /\ \A p, q \in DOMAIN s :
          p < q => (CHOOSE i \in DOMAIN full : full[i] = s[p])
                     < (CHOOSE i \in DOMAIN full : full[i] = s[q])

(* C1 as stated: whenever the caller supplies a mapping, the empty           *)
(* dictionary included, the mapping handed to _apply_mapping is exactly that *)
(* mapping, for every source argument.                                       *)
C1_AnyGivenMappingVerbatim ==
    (MappingChosen /\ custom_mapping.given) => mapping = custom_mapping.dict

(* C1 amended: a non-empty caller-supplied mapping is handed to              *)
(* _apply_mapping verbatim, for every source argument; an empty dictionary   *)
(* is treated like no mapping, and the inferred mapping is used.             *)
C1_NonEmptyMappingVerbatim ==
    MappingChosen =>
        /\ (custom_mapping.given /\ custom_mapping.dict # <<>>)
              => mapping = custom_mapping.dict
        /\ (custom_mapping.given /\ custom_mapping.dict = <<>>)
              => mapping = get_column_mapping(df.columns, source)

\* a non-empty custom mapping was used although inference gives another one
C1_Witness ==
    /\ pc = "mapped"
    /\ custom_mapping.given /\ custom_mapping.dict # <<>>
    /\ mapping = custom_mapping.dict
    /\ get_column_mapping(df.columns, source) # <<>>
    /\ source_arg = "imdb"

(* C2 as stated: the mapping _get_column_mapping returns never gives two     *)
(* distinct raw columns the same canonical field, nor one raw column two     *)
(* canonical fields.                                                         *)
C2_MappingOneToOne ==
    (MappingChosen /\ ~Truthy(custom_mapping)) =>
        \A i, j \in DOMAIN mapping :
            (mapping[i][1] = mapping[j][1] \/ mapping[i][2] = mapping[j][2]) => i = j

(* C3 as stated: a raw column that is not a key of the mapping contributes   *)
(* no column to the projected table nor to the returned table.               *)
C3_UnmappedColumnsDropped ==
    /\ pc \in {"applied", "done"} =>
          \A j \in DOMAIN df_mapped.origin : df_mapped.origin[j] \in Keys(mapping)
    /\ pc = "done" =>
          \A j \in DOMAIN df_cleaned.origin :
              df_cleaned.origin[j] \in Keys(mapping) \cup {Synthesized}

(* C4 as stated: in the returned table a genres cell whose input was missing *)
(* is the text Unknown, and no genres cell is the empty text.                *)
C4_MissingGenresUnknown ==
    (pc = "done" /\ HasCol(df_cleaned, "genres")) =>
        LET j == Positions(df_cleaned, "genres")[1]
            jin == Positions(df_mapped, "genres")[1]
        IN  \A p \in DOMAIN df_cleaned.rows :
                /\ IsNaN(df_mapped.rows[RowAt(df_mapped, df_cleaned.index[p])][jin])
                      => df_cleaned.rows[p][j] = Unknown
                /\ df_cleaned.rows[p][j] # Str(<<>>)

(* C5 as stated: without a custom mapping, a call whose file loaded never    *)
(* fails: the only exception that leaves load_and_map is the load error.     *)
C5_OnlyLoadErrors ==
    (pc = "failed" /\ custom_mapping = NoMapping) => error \in LOAD_ERRORS

(* C6 as stated: in the returned table runtime and vote_count hold whole     *)
(* numbers in every row, release_year a whole number or unknown, rating and  *)
(* popularity numbers, and movie_id, title, genres and overview text (a      *)
(* missing value is let pass in the number and text fields).                 *)
C6_DeclaredTypes ==
    pc = "done" =>
        \A p \in DOMAIN df_cleaned.rows : \A j \in DOMAIN df_cleaned.columns :
            LET c == df_cleaned.rows[p][j]
                label == df_cleaned.columns[j]
            IN  /\ label \in {"runtime", "vote_count"} => IsInteger(c)
                /\ label = "release_year" => (IsInteger(c) \/ IsNaN(c))
                /\ label \in {"rating", "popularity"} => (IsNum(c) \/ IsNaN(c))
                /\ label \in {"movie_id", "title", "genres", "overview"}
                      => (IsStr(c) \/ IsNaN(c))

\* the reference detector of C7
C7_Order == <<"imdb", "tmdb", "movielens", "rotten_tomatoes", "letterboxd", "kaggle">>

C7_Signature(name) ==
    source_signatures[CHOOSE i \in DOMAIN source_signatures : source_signatures[i][1] = name][2]

C7_Score(name, columns) ==
    Cardinality({c \in C7_Signature(name) : \E j \in DOMAIN columns : Lower(columns[j]) = c})

C7_Reference(columns) ==
    LET top == CHOOSE k \in 0..Len(columns) :
                   /\ \E i \in DOMAIN C7_Order : C7_Score(C7_Order[i], columns) = k
                   /\ \A i \in DOMAIN C7_Order : C7_Score(C7_Order[i], columns) <= k
    IN  IF top = 0 THEN "kaggle"
        ELSE C7_Order[CHOOSE i \in DOMAIN C7_Order :
                          /\ C7_Score(C7_Order[i], columns) = top
                          /\ \A h \in 1..(i - 1) : C7_Score(C7_Order[h], columns) < top]

(* C7: with no source argument, the detected source is the reference's: each *)
(* source scores the number of its signature columns among the lower-cased   *)
(* raw column names; a positive maximum goes to the first source, in the     *)
(* order imdb, tmdb, movielens, rotten_tomatoes, letterboxd, kaggle, that    *)
(* has it; if every score is zero the source is kaggle.                      *)
C7_DetectMatchesReference ==
    (pc \in {"detected", "mapped", "applied", "done"} /\ source_arg = None)
        => source = C7_Reference(df.columns)

\* two sources tie on a positive best score and the first declared one won
C7_Witness ==
    /\ pc = "detected" /\ source_arg = None
    /\ \E i, h \in DOMAIN C7_Order :
          /\ i < h
          /\ source = C7_Order[i]
          /\ C7_Score(C7_Order[i], df.columns) > 0
          /\ C7_Score(C7_Order[h], df.columns) = C7_Score(C7_Order[i], df.columns)

\* the title and release_year values of a projected row, and the rows that
\* are the first with theirs
C8_Key(i) == [j \in KeyPositions(df_mapped, {"title", "release_year"}) |-> df_mapped.rows[i][j]]

C8_FirstOccurrences ==
    SelectSeq([i \in DOMAIN df_mapped.index |-> i],
              LAMBDA i : \A h \in 1..(i - 1) : C8_Key(h) # C8_Key(i))

(* C8: when title and release_year are both among the projected columns, the *)
(* returned rows are exactly the rows that are the first with their title    *)
(* and release_year values, in their original order; otherwise every row is  *)
(* returned; in both cases the returned rows are a subsequence of the raw    *)
(* rows and carry the identifying values of the row they come from.          *)
C8_KeepFirstInOrder ==
    pc = "done" =>
        /\ (HasCol(df_mapped, "title") /\ HasCol(df_mapped, "release_year"))
              => df_cleaned.index = [p \in DOMAIN C8_FirstOccurrences |->
                                        df_mapped.index[C8_FirstOccurrences[p]]]
        /\ ~(HasCol(df_mapped, "title") /\ HasCol(df_mapped, "release_year"))
              => df_cleaned.index = df_mapped.index
        /\ IsSubsequenceOf(df_cleaned.index, df.index)
        /\ \A p \in DOMAIN df_cleaned.index :
              \A j \in DOMAIN df_mapped.columns :
                  df_mapped.columns[j] \in {"title", "overview"}
                      => df_cleaned.rows[p][j]
                           = df_mapped.rows[RowAt(df_mapped, df_cleaned.index[p])][j]

\* a duplicate in the middle was removed and a later row was kept
C8_Witness ==
    /\ pc = "done"
    /\ HasCol(df_mapped, "title") /\ HasCol(df_mapped, "release_year")
    /\ \E p \in DOMAIN df_cleaned.index :
          /\ p < Len(df_cleaned.index)
          /\ df_cleaned.index[p + 1] > df_cleaned.index[p] + 1

\* c is the token of position p: MOV, then the numeral of p on at least 5 digits
C9_IsToken(c, p) ==
    /\ IsStr(c)
    /\ Len(c.s) >= 8
    /\ SubSeq(c.s, 1, 3) = <<"M", "O", "V">>
    /\ \A i \in 4..Len(c.s) : IsDigit(c.s[i])
    /\ DigitsValue(SubSeq(c.s, 4, Len(c.s))) = p
    /\ (Len(c.s) > 8 => c.s[4] # "0")

(* C9: when the projected table has no movie_id column, the returned table   *)
(* has one, whose cell in the row at position p (1-based, after              *)
(* de-duplication) is MOV followed by the numeral of p, zero-padded to at    *)
(* least 5 digits; the tokens are non-empty and pairwise distinct.           *)
C9_SynthesizedIds ==
    (pc = "done" /\ ~HasCol(df_mapped, "movie_id")) =>
        /\ Len(Positions(df_cleaned, "movie_id")) = 1
        /\ LET j == Positions(df_cleaned, "movie_id")[1]
           IN  /\ \A p \in DOMAIN df_cleaned.rows : C9_IsToken(df_cleaned.rows[p][j], p)
               /\ \A p, q \in DOMAIN df_cleaned.rows :
                      df_cleaned.rows[p][j] = df_cleaned.rows[q][j] => p = q

\* tokens were made for a table that lost a row to de-duplication
C9_Witness ==
    /\ pc = "done" /\ ~HasCol(df_mapped, "movie_id")
    /\ Len(df_cleaned.index) >= 2
    /\ \E p \in DOMAIN df_cleaned.index : df_cleaned.index[p] # p - 1

(* C10 as stated: when the inferred mapping is empty, load_and_map returns   *)
(* a table with no columns and no data.                                      *)
C10_EmptyMappingEmptyTable ==
    (pc = "done" /\ ~Truthy(custom_mapping) /\ mapping = <<>>)
        => (df_cleaned.columns = <<>> /\ \A p \in DOMAIN df_cleaned.rows : df_cleaned.rows[p] = <<>>)

(* C10 amended: when the inferred mapping is empty, load_and_map does not    *)
(* fail and returns a table without any raw data: its only column is the     *)
(* synthesized movie_id, with one token for each raw row.                    *)
C10_EmptyMappingIdsOnly ==
    (MappingChosen /\ ~Truthy(custom_mapping) /\ mapping = <<>>) =>
        /\ pc # "failed"
        /\ pc = "applied" => df_mapped.columns = <<>>
        /\ pc = "done" =>
              /\ df_cleaned.columns = <<"movie_id">>
              /\ df_cleaned.origin = <<Synthesized>>
              /\ df_cleaned.index = df.index
              /\ \A p \in DOMAIN df_cleaned.rows : C9_IsToken(df_cleaned.rows[p][1], p)

\* a file with rows and no mappable column was returned
C10_Witness ==
    /\ pc = "done" /\ ~Truthy(custom_mapping) /\ mapping = <<>>
    /\ Len(df.index) >= 2
    /\ Len(df_cleaned.index) = Len(df.index)

\* the projected cell a returned cell comes from: same column, the row with
\* the returned row's index label
InputCell(label, p) ==
    df_mapped.rows[RowAt(df_mapped, df_cleaned.index[p])][Positions(df_mapped, label)[1]]

OutputCell(label, p) == df_cleaned.rows[p][Positions(df_cleaned, label)[1]]

\* the returned rows whose input cell of this column holds a number, as a
\* number or as a numeral
C11_Known(label) == {p \in DOMAIN df_cleaned.rows : IsNum(to_numeric(InputCell(label, p)))}

C11_Below(label, m) == {p \in C11_Known(label) : RatLess(to_numeric(InputCell(label, p)), m)}

C11_Above(label, m) == {p \in C11_Known(label) : RatLess(m, to_numeric(InputCell(label, p)))}

\* twice m is the sum of a and b
C11_IsMean(m, a, b) == 2 * m.n * a.d * b.d = m.d * (a.n * b.d + b.n * a.d)

\* m is the median of the known values: a known value with fewer than half
\* of the values on either side, or the mean of the two values next to it
\* when exactly half of them lie on each side
C11_IsMedian(label, m) ==
    LET cnt == Cardinality(C11_Known(label))
        below == C11_Below(label, m)
        above == C11_Above(label, m)
    IN  /\ IsNum(m)
        /\ IF \E p \in C11_Known(label) : to_numeric(InputCell(label, p)) = m
           THEN 2 * Cardinality(below) < cnt /\ 2 * Cardinality(above) < cnt
           ELSE /\ 2 * Cardinality(below) = cnt /\ 2 * Cardinality(above) = cnt
                /\ \E p \in below, q \in above :
                      /\ \A h \in below : ~RatLess(to_numeric(InputCell(label, p)),
                                                   to_numeric(InputCell(label, h)))
                      /\ \A h \in above : ~RatLess(to_numeric(InputCell(label, h)),
                                                   to_numeric(InputCell(label, q)))
                      /\ C11_IsMean(m, to_numeric(InputCell(label, p)),
                                    to_numeric(InputCell(label, q)))

(* C11: in the returned table, a rating or runtime cell whose input held a   *)
(* number keeps that number; a cell whose input was missing or not a numeral *)
(* holds the median of the numbers of that column in the rows left after     *)
(* de-duplication, so that no cell is missing when the column has at least   *)
(* one number, and every cell is missing when it has none.                   *)
C11_MedianImputation ==
    pc = "done" =>
        \A label \in {"rating", "runtime"} :
            HasCol(df_cleaned, label) =>
                \A p \in DOMAIN df_cleaned.rows :
                    IF p \in C11_Known(label)
                    THEN OutputCell(label, p) = to_numeric(InputCell(label, p))
                    ELSE IF C11_Known(label) = {}
                         THEN IsNaN(OutputCell(label, p))
                         ELSE C11_IsMedian(label, OutputCell(label, p))

\* a cell was filled with a median that a row removed as a duplicate, had it
\* counted, would have changed
C11_Witness ==
    /\ pc = "done"
    /\ \E label \in {"rating", "runtime"} :
          /\ HasCol(df_cleaned, label)
          /\ \E p \in DOMAIN df_cleaned.rows :
                /\ p \notin C11_Known(label)
                /\ IsNum(OutputCell(label, p))
                /\ \E i \in DOMAIN df_mapped.rows :
                      /\ ~InSeq(df_mapped.index[i], df_cleaned.index)
                      /\ IsNum(df_mapped.rows[i][Positions(df_mapped, label)[1]])
                      /\ RatLess(OutputCell(label, p),
                                 df_mapped.rows[i][Positions(df_mapped, label)[1]])

(* C12: in the returned table, a vote_count or popularity cell whose input   *)
(* held a number keeps that number and a cell whose input was missing or not *)
(* a numeral is 0; a column without any number comes out all zero.           *)
C12_ZeroImputation ==
    pc = "done" =>
        \A label \in {"vote_count", "popularity"} :
            HasCol(df_cleaned, label) =>
                \A p \in DOMAIN df_cleaned.rows :
                    IF IsNum(to_numeric(InputCell(label, p)))
                    THEN OutputCell(label, p) = to_numeric(InputCell(label, p))
                    ELSE OutputCell(label, p) = Num(0, 1)

\* a vote_count column of missing values and text that is no numeral came
\* out all zero
C12_Witness ==
    /\ pc = "done" /\ HasCol(df_cleaned, "vote_count")
    /\ Len(df_cleaned.rows) >= 2
    /\ \E p \in DOMAIN df_cleaned.rows : IsNaN(InputCell("vote_count", p))
    /\ \E p \in DOMAIN df_cleaned.rows : IsStr(InputCell("vote_count", p))
    /\ \A p \in DOMAIN df_cleaned.rows :
          /\ ~IsNum(to_numeric(InputCell("vote_count", p)))
          /\ OutputCell("vote_count", p) = Num(0, 1)

\* the five numeric fields
C13_NumericFields == {"rating", "vote_count", "runtime", "release_year", "popularity"}

\* text that is a decimal numeral: digits, at most one point, a digit at least
C13_IsNumeral(s) ==
    /\ \A i \in DOMAIN s : IsDigit(s[i]) \/ s[i] = "."
    /\ Cardinality({i \in DOMAIN s : s[i] = "."}) <= 1
    /\ \E i \in DOMAIN s : IsDigit(s[i])

\* the table the coercions start from: the projected table without duplicates
C13_Table == step_duplicates(df_mapped).t

(* C13: in each of the five numeric fields, coercion makes a cell missing    *)
(* exactly when it was missing or text that is no numeral, and it does so    *)
(* for that cell only: a number stays the number it was, a numeral becomes a *)
(* number, the column keeps one cell for every row, and the cells of the     *)
(* title, overview and given movie_id columns are the input's; in the        *)
(* returned table the rows are those left after de-duplication and every     *)
(* cell whose input held a number holds that number.                         *)
C13_CoercionPerCell ==
    /\ pc \in {"applied", "done"} =>
          \A label \in C13_NumericFields :
              Len(Positions(C13_Table, label)) = 1 =>
                  LET cells == numeric_column(C13_Table, label)
                      j == Positions(C13_Table, label)[1]
                  IN  /\ DOMAIN cells = DOMAIN C13_Table.rows
                      /\ \A i \in DOMAIN cells :
                            LET raw == C13_Table.rows[i][j]
                            IN  /\ (IsStr(raw) /\ ~C13_IsNumeral(raw.s)) => IsNaN(cells[i])
                                /\ (IsStr(raw) /\ C13_IsNumeral(raw.s)) => IsNum(cells[i])
                                /\ ~IsStr(raw) => cells[i] = raw
    /\ pc = "done" =>
          /\ df_cleaned.index = C13_Table.index
          /\ \A label \in C13_NumericFields :
                HasCol(df_cleaned, label) =>
                    \A p \in DOMAIN df_cleaned.rows :
                        /\ IsNum(InputCell(label, p)) => OutputCell(label, p) = InputCell(label, p)
                        /\ (IsStr(InputCell(label, p)) /\ C13_IsNumeral(InputCell(label, p).s))
                              => IsNum(OutputCell(label, p))
          /\ \A label \in {"title", "overview", "movie_id"} :
                HasCol(df_mapped, label) =>
                    \A p \in DOMAIN df_cleaned.rows : \A j \in DOMAIN df_mapped.columns :
                        df_mapped.columns[j] = label
                            => df_cleaned.rows[p][j]
                                 = df_mapped.rows[RowAt(df_mapped, df_cleaned.index[p])][j]

\* a returned row had text that is no numeral in a numeric field, next to a
\* row whose number in that field was kept, and release_year came out
\* missing in the one and as a number in the other
C13_Witness ==
    /\ pc = "done"
    /\ HasCol(df_cleaned, "release_year")
    /\ \E label \in C13_NumericFields \ {"release_year"} :
          /\ HasCol(df_cleaned, label)
          /\ \E p, q \in DOMAIN df_cleaned.rows :
                /\ IsStr(InputCell(label, p)) /\ ~C13_IsNumeral(InputCell(label, p).s)
                /\ IsStr(InputCell("release_year", p)) /\ IsNaN(OutputCell("release_year", p))
                /\ IsNum(InputCell(label, q)) /\ OutputCell(label, q) = InputCell(label, q)
                /\ IsNum(OutputCell("release_year", q))

\* the whole number a text of digits denotes, computed from the left
RECURSIVE C14_Value(_, _, _)
C14_Value(s, i, acc) ==
    IF i > Len(s) THEN acc ELSE C14_Value(s, i + 1, 10 * acc + DigitValue(s[i]))

C14_YearOf(s) == C14_Value(s, 1, 0)

C14_IsYearText(s) == s # <<>> /\ \A i \in DOMAIN s : IsDigit(s[i])

(* C14: release_year is never imputed: in the returned table a release_year  *)
(* cell is unknown exactly when its input was missing or text that is no     *)
(* numeral, and a whole-number year, given as a number or as a numeral of    *)
(* digits, comes out as that whole number.                                   *)
C14_YearNeverImputed ==
    (pc = "done" /\ HasCol(df_cleaned, "release_year")) =>
        \A p \in DOMAIN df_cleaned.rows :
            LET raw == InputCell("release_year", p)
                out == OutputCell("release_year", p)
            IN  /\ IsNaN(out) <=> (IsNaN(raw) \/ (IsStr(raw) /\ ~C13_IsNumeral(raw.s)))
                /\ ~IsNaN(out) => IsInteger(out)
                /\ IsInteger(raw) => out = raw
                /\ (IsStr(raw) /\ C14_IsYearText(raw.s)) => out = Num(C14_YearOf(raw.s), 1)

\* a table came back with an unknown year beside known ones, one of them
\* read from a numeral
C14_Witness ==
    /\ pc = "done" /\ HasCol(df_cleaned, "release_year")
    /\ \E p, q, r \in DOMAIN df_cleaned.rows :
          /\ IsNaN(OutputCell("release_year", p))
          /\ IsInteger(InputCell("release_year", q))
          /\ OutputCell("release_year", q) = InputCell("release_year", q)
          /\ IsStr(InputCell("release_year", r))
          /\ IsInteger(OutputCell("release_year", r))

\* text s without the characters of drop
C15_Without(s, drop) == SelectSeq(s, LAMBDA ch : ch \notin drop)

\* o is full without the spaces at its two ends
C15_IsTrimOf(o, full) ==
    /\ o # <<>> => (o[1] # " " /\ o[Len(o)] # " ")
    /\ \E a \in 1..(Len(full) + 1) : \E b \in 0..Len(full) :
          /\ o = SubSeq(full, a, b)
          /\ \A i \in DOMAIN full : (i < a \/ i > b) => full[i] = " "

\* the characters of list-literal punctuation: brackets and both quotes
C15_Punctuation == {"[", "]", "'", "\""}

(* C15 as stated: no returned genres value contains a bracket or a quote     *)
(* character, single or double, and what is left of a text input is          *)
(* unchanged apart from the trimmed surrounding whitespace.                  *)
C15_NoBracketNoQuote ==
    (pc = "done" /\ HasCol(df_cleaned, "genres")) =>
        \A p \in DOMAIN df_cleaned.rows :
            LET raw == InputCell("genres", p)
                out == OutputCell("genres", p)
            IN  /\ IsStr(out)
                /\ \A i \in DOMAIN out.s : out.s[i] \notin C15_Punctuation
                /\ IsStr(raw) => C15_IsTrimOf(out.s, C15_Without(raw.s, C15_Punctuation))

\* how many times the character occurs in the text
C16_Count(s, ch) == Cardinality({i \in DOMAIN s : s[i] = ch})

(* C16 as stated: a returned genres value whose input names several tags, as *)
(* a list literal or separated by commas, is pipe-separated: it has no comma *)
(* and one '|' between each two tags.                                        *)
C16_PipeSeparated ==
    (pc = "done" /\ HasCol(df_cleaned, "genres")) =>
        \A p \in DOMAIN df_cleaned.rows :
            LET raw == InputCell("genres", p)
                out == OutputCell("genres", p)
            IN  (IsStr(raw) /\ InSeq(",", raw.s)) =>
                    /\ ~InSeq(",", out.s)
                    /\ C16_Count(out.s, "|") = C16_Count(raw.s, ",")

\* the nine canonical fields
C17_Canonical ==
    {"movie_id", "title", "genres", "release_year", "runtime", "rating", "vote_count",
     "popularity", "overview"}

(* C17: whatever the raw table, the source argument and the mapping, an      *)
(* explicit mapping onto other names included, every column label of the     *)
(* projected table and of the returned table is one of the nine canonical    *)
(* fields.                                                                   *)
C17_SchemaClosure ==
    /\ pc \in {"applied", "done"} => Range(df_mapped.columns) \subseteq C17_Canonical
    /\ pc = "done" => Range(df_cleaned.columns) \subseteq C17_Canonical

\* an explicit mapping renamed a raw column to a name outside the schema and
\* the call returned a table with a field of the schema
C17_Witness ==
    /\ pc = "done" /\ Truthy(custom_mapping)
    /\ \E i \in DOMAIN mapping :
          InSeq(mapping[i][1], df.columns) /\ mapping[i][2] \notin C17_Canonical
    /\ \E j \in DOMAIN df.columns : df.columns[j] \notin Keys(mapping) \cup C17_Canonical
    /\ HasCol(df_cleaned, "rating")

\* the identity mapping on the fields the returned table has
C18_Identity ==
    LET present == SeqOfSet(STANDARD_SCHEMA, Range(df_cleaned.columns))
    IN  [i \in DOMAIN present |-> <<present[i], present[i]>>]

\* the returned table normalized once more, with the identity mapping
C18_Again == validate_and_clean(apply_mapping(df_cleaned, C18_Identity))

\* the title and release_year values of a returned row, and the returned
\* rows that are the first with theirs
C18_Key(i) == [j \in KeyPositions(df_cleaned, {"title", "release_year"}) |-> df_cleaned.rows[i][j]]

C18_FirstOccurrences ==
    IF HasCol(df_cleaned, "title") /\ HasCol(df_cleaned, "release_year")
    THEN SelectSeq([i \in DOMAIN df_cleaned.index |-> i],
                   LAMBDA i : \A h \in 1..(i - 1) : C18_Key(h) # C18_Key(i))
    ELSE [i \in DOMAIN df_cleaned.index |-> i]

(* C18: normalizing a returned table once more with the identity mapping     *)
(* does not fail and gives a table with the same column labels, each as many *)
(* times; its rows are the returned rows that are the first with their title *)
(* and release_year, in the same order, and each of them has in every column *)
(* the cell it had.                                                          *)
C18_Idempotent ==
    pc = "done" =>
        LET again == C18_Again
        IN  /\ again.ok
            /\ \A label \in Range(STANDARD_SCHEMA) :
                  Len(Positions(again.t, label)) = Len(Positions(df_cleaned, label))
            /\ Len(again.t.columns) = Len(df_cleaned.columns)
            /\ again.t.index = [p \in DOMAIN C18_FirstOccurrences |->
                                   df_cleaned.index[C18_FirstOccurrences[p]]]
            /\ \A p \in DOMAIN again.t.rows :
                  \A label \in Range(df_cleaned.columns) :
                      \A k \in DOMAIN Positions(df_cleaned, label) :
                          again.t.rows[p][Positions(again.t, label)[k]]
                            = df_cleaned.rows[RowAt(df_cleaned, again.t.index[p])]
                                             [Positions(df_cleaned, label)[k]]

\* the second normalization removed a row that the first had kept, with a
\* row after it, from a table whose movie_id was synthesized
C18_Witness ==
    /\ pc = "done" /\ ~HasCol(df_mapped, "movie_id")
    /\ Len(C18_Again.t.index) < Len(df_cleaned.index)
    /\ \E p \in DOMAIN df_cleaned.index :
          /\ ~InSeq(df_cleaned.index[p], C18_Again.t.index)
          /\ \E q \in DOMAIN df_cleaned.index :
                q > p /\ InSeq(df_cleaned.index[q], C18_Again.t.index)

\* the raw columns of the scenario and the mapping it is given
C19_Columns == {"tconst", "primary_title", "start_year", "average_rating", "num_votes"}

C19_Pairs ==
    { <<"primary_title", "title">>, <<"start_year", "release_year">>,
      <<"average_rating", "rating">>, <<"tconst", "movie_id">>, <<"num_votes", "vote_count">> }

C19_Case ==
    /\ Range(df.columns) = C19_Columns
    /\ source_arg = None
    /\ ~Truthy(custom_mapping)

(* C19: for a raw table with exactly the columns tconst, primary_title,      *)
(* start_year, average_rating and num_votes and no source argument, the      *)
(* detected source is imdb, with score 3 and every other source below, and   *)
(* the inferred mapping is exactly primary_title to title, start_year to     *)
(* release_year, average_rating to rating, tconst to movie_id and num_votes  *)
(* to vote_count.                                                            *)
C19_ImdbScenario ==
    /\ (C19_Case /\ pc \in {"detected", "mapped", "applied", "done"}) =>
          /\ source = "imdb"
          /\ match_count(C7_Signature("imdb"), df.columns) = 3
          /\ C7_Score("imdb", df.columns) = 3
          /\ \A i \in DOMAIN C7_Order :
                C7_Order[i] # "imdb" => C7_Score(C7_Order[i], df.columns) < 3
    /\ (C19_Case /\ pc \in {"mapped", "applied", "done"}) =>
          /\ Range(mapping) = C19_Pairs
          /\ Len(mapping) = 5

\* the scenario's file, with rows, went through detection and mapping and
\* was returned with the five fields
C19_Witness ==
    /\ C19_Case /\ pc = "done"
    /\ source = "imdb"
    /\ Len(df.index) >= 2
    /\ Range(df_cleaned.columns) = {"movie_id", "title", "release_year", "rating", "vote_count"}

\* some column name is, letter case aside, an entry of the fuzzy pattern table
C20_SomePattern(columns) ==
    \E j \in DOMAIN columns : \E i \in DOMAIN FUZZY_PATTERNS :
        \E k \in DOMAIN FUZZY_PATTERNS[i][2] :
            Lower(columns[j]) = Lower(FUZZY_PATTERNS[i][2][k])

\* source names: the registered ones and one that is not
C20_Sources == Range(SOURCE_NAMES) \cup {"netflix"}

(* C20: when some raw column name equals, letter case aside, an entry of the *)
(* fuzzy pattern table, _get_column_mapping returns a non-empty mapping for  *)
(* every source name, registered or not, and so the mapping of the call is   *)
(* not empty.                                                                *)
C20_FuzzyFallback ==
    /\ (FileLoaded /\ C20_SomePattern(df.columns)) =>
          \A src \in C20_Sources : get_column_mapping(df.columns, src) # <<>>
    /\ (MappingChosen /\ ~Truthy(custom_mapping) /\ C20_SomePattern(df.columns)) =>
          mapping # <<>>

\* under a source name that has no dictionary, a column that matches a
\* pattern only when letter case is ignored was mapped
C20_Witness ==
    /\ pc = "mapped" /\ ~Truthy(custom_mapping)
    /\ ~InSeq(source, SOURCE_NAMES)
    /\ C20_SomePattern(df.columns)
    /\ \A j \in DOMAIN df.columns : df.columns[j] \in {"Title", "notes"}
    /\ mapping = << <<"Title", "title">> >>

(* C29: when the projected table has a movie_id column, the returned table   *)
(* has the same movie_id columns, none of them synthesized, and every kept   *)
(* row has in each of them the value of its input row, missing and repeated  *)
(* values included.                                                          *)
C29_GivenIdsPassThrough ==
    (pc = "done" /\ HasCol(df_mapped, "movie_id")) =>
        /\ Positions(df_cleaned, "movie_id") = Positions(df_mapped, "movie_id")
        /\ \A j \in DOMAIN df_cleaned.columns :
              df_cleaned.columns[j] = "movie_id" =>
                  /\ df_cleaned.origin[j] # Synthesized
                  /\ \A p \in DOMAIN df_cleaned.rows :
                        df_cleaned.rows[p][j]
                          = df_mapped.rows[RowAt(df_mapped, df_cleaned.index[p])][j]

\* a table was returned whose given ids have a missing value and a value
\* that two rows share
C29_Witness ==
    /\ pc = "done" /\ HasCol(df_mapped, "movie_id")
    /\ \E p, q, r \in DOMAIN df_cleaned.rows :
          /\ p # q
          /\ IsNaN(OutputCell("movie_id", r))
          /\ IsNum(OutputCell("movie_id", p))
          /\ OutputCell("movie_id", p) = OutputCell("movie_id", q)

\* the mapping _get_column_mapping holds when it reaches `if not mapping`
C28_BeforeFallback(columns, src) ==
    FuzzyLoop(columns, 1, ExactLoop(columns, source_map(src), 1, <<>>), TRUE)

(* C28: for every column set and source name, when the mapping is empty at   *)
(* the `if not mapping` branch, _fuzzy_match_all returns the empty mapping   *)
(* too, so that _get_column_mapping returns what it held before the branch.  *)
C28_BestEffortAddsNothing ==
    /\ FileLoaded =>
          \A src \in C20_Sources :
              /\ C28_BeforeFallback(df.columns, src) = <<>>
                    => fuzzy_match_all(df.columns) = <<>>
              /\ get_column_mapping(df.columns, src) = C28_BeforeFallback(df.columns, src)
    /\ (pc = "mapped" /\ ~Truthy(custom_mapping))
          => mapping = C28_BeforeFallback(df.columns, source)

\* a file with columns and rows reached the branch and came out of it with
\* the empty mapping
C28_Witness ==
    /\ pc = "mapped" /\ ~Truthy(custom_mapping)
    /\ df.columns # <<>> /\ Len(df.index) >= 1
    /\ C28_BeforeFallback(df.columns, source) = <<>>
    /\ mapping = <<>>

(* C27 as stated: in a returned table that has title and release_year, no    *)
(* two rows have the same title and release_year, compared on the returned   *)
(* values (the year after coercion, unknown years included).                 *)
C27_NoDuplicateOutputPairs ==
    (pc = "done" /\ HasCol(df_cleaned, "title") /\ HasCol(df_cleaned, "release_year")) =>
        \A p, q \in DOMAIN df_cleaned.rows : C18_Key(p) = C18_Key(q) => p = q

\* the place of a canonical field in the pattern table
C26_FieldIndex(f) == CHOOSE i \in DOMAIN FUZZY_PATTERNS : FUZZY_PATTERNS[i][1] = f

\* the raw column a pattern stands for: the last one with the pattern's
\* lower-cased name
C26_Matches(columns, pattern) == {j \in DOMAIN columns : Lower(columns[j]) = Lower(pattern)}

C26_Column(columns, pattern) ==
    columns[CHOOSE j \in C26_Matches(columns, pattern) :
                \A h \in C26_Matches(columns, pattern) : h <= j]

\* the raw columns taken before field i is visited: by the exact step, and
\* by the fuzzy step for an earlier field
C26_Consumed(exact, added, i) ==
    Keys(exact) \cup {added[k][1] : k \in {h \in DOMAIN added : C26_FieldIndex(added[h][2]) < i}}

\* the patterns of field i that stand for a raw column not taken yet
C26_Hits(columns, exact, added, i) ==
    {k \in DOMAIN FUZZY_PATTERNS[i][2] :
        /\ C26_Matches(columns, FUZZY_PATTERNS[i][2][k]) # {}
        /\ C26_Column(columns, FUZZY_PATTERNS[i][2][k]) \notin C26_Consumed(exact, added, i)}

\* the pairs the fuzzy step is to add for field i
C26_Expected(columns, exact, added, i) ==
    IF FUZZY_PATTERNS[i][1] \in Values(exact) \/ C26_Hits(columns, exact, added, i) = {}
    THEN {}
    ELSE LET first == CHOOSE k \in C26_Hits(columns, exact, added, i) :
                          \A h \in C26_Hits(columns, exact, added, i) : k <= h
         IN  {<<C26_Column(columns, FUZZY_PATTERNS[i][2][first]), FUZZY_PATTERNS[i][1]>>}

C26_GapsOnly(columns, src) ==
    LET exact == ExactLoop(columns, source_map(src), 1, <<>>)
        result == FuzzyLoop(columns, 1, exact, TRUE)
        added == SubSeq(result, Len(exact) + 1, Len(result))
    IN  /\ Len(result) >= Len(exact)
        /\ SubSeq(result, 1, Len(exact)) = exact
        /\ \A i \in DOMAIN FUZZY_PATTERNS :
              {added[k] : k \in {h \in DOMAIN added : added[h][2] = FUZZY_PATTERNS[i][1]}}
                = C26_Expected(columns, exact, added, i)
        /\ \A k, h \in DOMAIN added :
              k < h => C26_FieldIndex(added[k][2]) < C26_FieldIndex(added[h][2])

(* C26: in _get_column_mapping the fuzzy step keeps the pairs of the exact   *)
(* step and adds none for a canonical field they resolve; for every other    *)
(* field, in pattern-table order, it adds the one pair of the raw column of  *)
(* the earliest pattern of the field whose raw column is not yet a key of    *)
(* the mapping, and no pair when there is no such pattern.                   *)
C26_FuzzyFillsGaps ==
    FileLoaded => \A src \in C20_Sources : C26_GapsOnly(df.columns, src)

\* the exact step resolved a field, the fuzzy step added a pair for another
\* one and left alone a raw column that matches a pattern of the resolved
\* field; it also passed over a pattern whose raw column was taken for an
\* earlier field
C26_Witness ==
    /\ pc = "mapped" /\ ~Truthy(custom_mapping)
    /\ LET exact == ExactLoop(df.columns, source_map(source), 1, <<>>)
       IN  /\ exact # <<>>
           /\ Len(mapping) > Len(exact)
           /\ \E i \in DOMAIN FUZZY_PATTERNS : \E k \in DOMAIN FUZZY_PATTERNS[i][2] :
                 /\ FUZZY_PATTERNS[i][1] \in Values(exact)
                 /\ C26_Matches(df.columns, FUZZY_PATTERNS[i][2][k]) # {}
                 /\ C26_Column(df.columns, FUZZY_PATTERNS[i][2][k]) \notin Keys(mapping)
    /\ \E i \in DOMAIN FUZZY_PATTERNS : \E k \in DOMAIN FUZZY_PATTERNS[i][2] :
          /\ FUZZY_PATTERNS[i][1] \notin Values(mapping)
          /\ C26_Matches(df.columns, FUZZY_PATTERNS[i][2][k]) # {}
          /\ C26_Column(df.columns, FUZZY_PATTERNS[i][2][k]) \in Keys(mapping)

(* C25: when the reader raises in load_and_map, the call fails with the very *)
(* exception the reader raised; no source is detected, no mapping chosen, no *)
(* table projected, cleaned or returned, and no later step runs.             *)
C25_LoadErrorPropagates ==
    ~file.ok =>
        /\ pc \in {"start", "failed"}
        /\ pc = "failed" => error = file.exc
        /\ source = source_arg
        /\ mapping = <<>>
        /\ df = NoTable /\ df_mapped = NoTable /\ df_cleaned = NoTable

\* a call with a source argument and an explicit mapping failed on a file
\* the parser rejects
C25_Witness ==
    /\ pc = "failed" /\ ~file.ok
    /\ error = "ParserError"
    /\ source_arg # None /\ Truthy(custom_mapping)

\* the source load_and_map uses for the file and source argument of the call
C23_LoadSource == IF source_arg = None THEN detect_source(df.columns) ELSE source_arg

\* how many reported pairs name this raw column
C23_PairsOf(col) == Cardinality({i \in DOMAIN report.pairs : report.pairs[i][1] = col})

(* C23: show_mapping_report never projects or cleans and leaves the raw      *)
(* table as it was read; the source and the pairs it prints are the source   *)
(* and the mapping load_and_map uses for the same file and source argument   *)
(* when no explicit mapping is given; and every raw column is either in      *)
(* exactly one printed pair or in the unmapped list, never in both.          *)
C23_ReadOnlyReport ==
    /\ df_mapped = NoTable /\ df_cleaned = NoTable
    /\ pc \in {"start", "r_loaded", "r_detected", "r_mapped", "returned"}
    /\ (file.ok /\ pc # "start") => df = file.table
    /\ (file.ok /\ pc = "returned") =>
          /\ report.emitted
          /\ report.source = C23_LoadSource
          /\ [i \in DOMAIN report.pairs |-> <<report.pairs[i][1], report.pairs[i][2]>>]
               = choose_mapping(NoMapping, df.columns, C23_LoadSource)
          /\ report.unmapped \subseteq Range(df.columns)
          /\ \A i \in DOMAIN report.pairs : InSeq(report.pairs[i][1], df.columns)
          /\ \A j \in DOMAIN df.columns :
                \/ C23_PairsOf(df.columns[j]) = 1 /\ df.columns[j] \notin report.unmapped
                \/ C23_PairsOf(df.columns[j]) = 0 /\ df.columns[j] \in report.unmapped

\* a report was printed, with a detected source, for a file with two columns
\* that differ in letter case only, one of them mapped and one not
C23_Witness ==
    /\ pc = "returned" /\ report.emitted /\ source_arg = None
    /\ report.source # "kaggle"
    /\ InSeq("Title", df.columns) /\ InSeq("title", df.columns)
    /\ report.pairs # <<>>
    /\ report.unmapped # {}

(* C30: when the reader raises in show_mapping_report, no exception leaves   *)
(* the call: it logs the reader's exception, prints nothing (no source, no   *)
(* pair, no unmapped column), runs no detection and no mapping, and returns. *)
C30_ReportLoadErrorSwallowed ==
    ~file.ok =>
        /\ pc \in {"start", "returned"}
        /\ error = None
        /\ ~report.emitted
        /\ report.source = None /\ report.pairs = <<>> /\ report.unmapped = {}
        /\ pc = "returned" => report.logged = file.exc
        /\ source = source_arg /\ mapping = <<>> /\ df = NoTable

\* a call without a source argument returned after logging that the file
\* was not found
C30_Witness ==
    /\ pc = "returned" /\ ~file.ok
    /\ report.logged = "FileNotFoundError"
    /\ source_arg = None
    /\ error = None

\* the result of a call: what it returned, raised, printed and logged
C24_Result(c) ==
    [pc |-> c.pc, df_cleaned |-> c.df_cleaned, error |-> c.error, report |-> c.report,
     source |-> c.source, mapping |-> c.mapping]

(* C24: no step of either call writes the registry, and each of two         *)
(* interleaved calls (load_and_map or show_mapping_report, each with its   *)
(* own file) ends with the result it has when it runs alone.               *)
C24_InterleavingInvisible ==
    /\ registry = Registry
    /\ Finished(peer) =>
          C24_Result(peer) = C24_Result(run_alone(start_call(peer.op, peer.file,
                                                  peer.source_arg, peer.custom_mapping)))
    /\ Finished(Self) =>
          C24_Result(Self) = C24_Result(run_alone(start_call(op, file, source_arg,
                                                             custom_mapping)))

\* both calls ended, on different files: a load_and_map that returned a
\* table with rows and a show_mapping_report that printed its report
C24_Witness ==
    /\ pc = "done" /\ op = "load_and_map" /\ df_cleaned.rows # <<>>
    /\ peer.pc = "returned" /\ peer.op = "show_mapping_report" /\ peer.report.emitted
    /\ peer.file # file
    /\ mapping # <<>> /\ peer.mapping # <<>>

\* two calls whose files have the same sequence of column names and that were
\* given the same source argument
C21_SameNames(a, b) ==
    /\ a.file.ok /\ b.file.ok
    /\ a.file.table.columns = b.file.table.columns
    /\ a.source_arg = b.source_arg

\* the call has passed its detection step / its mapping step
C21_Detected(c) == c.pc \notin {"start", "loaded", "r_loaded"}

C21_Mapped(c) == C21_Detected(c) /\ c.pc \notin {"detected", "r_detected"}

\* the call resolves its mapping with _get_column_mapping
C21_Inferred(c) == c.op = "show_mapping_report" \/ ~Truthy(c.custom_mapping)

(* C21: two calls on tables with the same sequence of column names and the  *)
(* same source argument detect the same source and resolve the same mapping *)
(* whatever their rows are (the same table twice included), and for every   *)
(* source name _get_column_mapping gives the same mapping for both tables.  *)
C21_NamesOnly ==
    C21_SameNames(Self, peer) =>
        /\ (C21_Detected(Self) /\ C21_Detected(peer)) => source = peer.source
        /\ (C21_Mapped(Self) /\ C21_Mapped(peer) /\ C21_Inferred(Self) /\ C21_Inferred(peer)) =>
              mapping = peer.mapping
        /\ (df # NoTable /\ peer.df # NoTable) =>
              /\ detect_source(columns_of(df)) = detect_source(columns_of(peer.df))
              /\ \A src \in C20_Sources :
                    get_column_mapping(columns_of(df), src)
                        = get_column_mapping(columns_of(peer.df), src)

\* both calls resolved a mapping for the same column names without a source
\* argument, one on a table with values and the other on a table whose only
\* row holds no value at all
C21_Witness ==
    /\ C21_SameNames(Self, peer) /\ source_arg = None
    /\ C21_Mapped(Self) /\ C21_Mapped(peer) /\ C21_Inferred(Self) /\ C21_Inferred(peer)
    /\ mapping # <<>>
    /\ file.table.rows # <<>>
    /\ \A j \in DOMAIN file.table.columns : IsNaN(file.table.rows[1][j])
    /\ peer.file.table.rows # <<>>
    /\ \E j \in DOMAIN peer.file.table.columns : ~IsNaN(peer.file.table.rows[1][j])

\* the call has run _apply_mapping
C22_Applied(c) == c.pc \in {"applied", "done"} \/ (c.pc = "failed" /\ c.file.ok)

(* C22: from the moment it is read, the raw table of a call keeps the       *)
(* columns, rows and cells the reader gave it through mapping resolution,   *)
(* projection, normalization and the report, and the table handed to        *)
(* _validate_and_clean is still the projected table after normalization:    *)
(* the canonical table is built beside them.                                *)
C22_RawTableUntouched ==
    /\ (file.ok /\ pc # "start") => df = file.table
    /\ (peer.file.ok /\ peer.pc # "start") => peer.df = peer.file.table
    /\ C22_Applied(Self) => df_mapped = apply_mapping(file.table, mapping)
    /\ C22_Applied(peer) => peer.df_mapped = apply_mapping(peer.file.table, peer.mapping)

\* a load_and_map call returned a canonical table that differs from its raw
\* table in columns and in cells, and a show_mapping_report call on a table
\* with rows printed its report
C22_Witness ==
    /\ pc = "done" /\ df = file.table
    /\ df_cleaned.columns # df.columns /\ df_cleaned.rows # df.rows
    /\ df_cleaned # df_mapped
    /\ \E i \in DOMAIN mapping : mapping[i][1] # mapping[i][2]
    /\ peer.op = "show_mapping_report" /\ peer.pc = "returned" /\ peer.df.rows # <<>>

=============================================================================
